---- MODULE Spec2Model ----
(***************************************************************************)
(* Model of two components of the node:                                    *)
(*   - BatchStatusUpdater (sync_layer/batch_status_updater/mod.rs): the    *)
(*     loop that mirrors the commit / prove / execute status of the        *)
(*     locally sealed L1 batches from the main node into the storage;      *)
(*   - TxSender (api_server/tx_sender/mod.rs): transaction validation,     *)
(*     submission, fee estimation and eth_call.                            *)
(* Spec is the updater's run loop against a main node that may answer     *)
(* anything; SpecConsistent is the same loop against a main node whose     *)
(* answers are consistent. SpecNonce, SpecValidate and SpecBalance apply   *)
(* the nonce check, validate_tx and validate_enough_balance to inputs      *)
(* drawn from the whole (scaled) range of their types. SpecApi runs        *)
(* submit_tx, estimate_fee and eth_call as concurrent requests that share  *)
(* the VM concurrency limiter, the proxy cache and the mempool.            *)
(* SpecEstimate follows one get_txs_fee_in_wei call through its u32        *)
(* arithmetic (SpecEstimateFair adds that the call is polled until it      *)
(* returns). SpecContracts selects the base system contracts for every     *)
(* protocol version. SpecUndisturbed is the updater's loop against a main  *)
(* node that answers every request, SpecConsistentFair the loop polled     *)
(* fairly. SpecGasPrice computes the base fee of gas_price and of the fee   *)
(* estimation from the same oracle price and configuration.                *)
(***************************************************************************)
EXTENDS Integers, Sequences, FiniteSets, TLC

\* ------------------------------------------------------------------ bounds
\* Highest L1 batch number the local node seals in the model.
MaxBatch == 3
\* Width in bits of the model's u32 (the program's is 32).
U32Bits == 4
\* Number of API requests in flight and of slots of the VM concurrency limiter.
NumRequests == 2
VmPermits == 1

VARIABLES
    \* BatchStatusUpdater fields
    last_committed_l1_batch, last_proven_l1_batch, last_executed_l1_batch,
    \* storage: confirmed eth_txs rows per action type, newest sealed L1 batch
    eth_txs, last_sealed_batch,
    \* watch channel holding the stop signal
    stop,
    \* position of run(): "loop", "scan", "collected", "sleep", "apply",
    \* "stopped" (returned Ok), "failed" (returned Err)
    pc,
    \* run()'s status_changes and the locals of get_status_changes
    status_changes, locals, collect_result,
    \* history of the current cycle: state at its start, batches requested
    \* from the main node, what the main node answered
    cycle_start, probed, unproven_seen, inconsistency_seen,
    \* where run() was when the stop signal was sent ("" before)
    stop_at,
    \* more history: the last BlockDetails answer the scan processed, whether
    \* a change was collected ahead of the status before it, and why the last
    \* apply_status_changes failed ("" if none did)
    observed,
    \* the main node: its L1 batches 1..committed are committed, 1..proven
    \* proven, 1..executed executed
    upstream,
    \* TxSender::validate_account_nonce: inputs, build mode and result
    tx_nonce, expected_nonce, max_nonce_ahead, overflow_checks, nonce_result,
    \* TxSender::validate_tx: the transaction, the sender configuration, the
    \* initiator's account in the storage, and the result with the storage
    \* reads made on the way
    tx, sender_config, account, validate_result,
    \* TxSender under concurrent requests: the requests (operation, position,
    \* locals, what each did so far), the VM concurrency limiter, the proxy
    \* cache, the local transactions table, and which of proxy and master
    \* pool the TxSender was built with
    requests, limiter, proxy_cache, mempool, setup,
    \* one get_txs_fee_in_wei call followed step by step: its inputs, its
    \* locals and what it did
    est,
    \* one selection of the base system contracts: the protocol version read
    \* from the storage, the one used, and the contracts selected
    contracts,
    \* one gas_price call and one fee estimation on the same oracle price and
    \* configuration: the inputs, the L1 gas price and the base fee of each
    fees

updater_vars == <<last_committed_l1_batch, last_proven_l1_batch, last_executed_l1_batch,
                  eth_txs, last_sealed_batch, stop, pc, status_changes, locals,
                  collect_result, cycle_start, probed, unproven_seen, inconsistency_seen,
                  stop_at, observed, upstream>>
nonce_vars == <<tx_nonce, expected_nonce, max_nonce_ahead, overflow_checks, nonce_result>>
validate_vars == <<tx, sender_config, account, validate_result>>
api_vars == <<requests, limiter, proxy_cache, mempool, setup>>
pure_vars == <<est, contracts, fees>>
tx_sender_vars == <<nonce_vars, validate_vars, api_vars, pure_vars>>
vars == <<updater_vars, tx_sender_vars>>

\* ------------------------------------------------------------ data types
\* L1BatchNumber::next()
next(n) == n + 1

\* Batch numbers the main node may put into BlockDetails.l1_batch_number.
BatchNumbers == 1..(MaxBatch + 1)

\* api::BlockDetails as far as the updater reads it: the batch number and the
\* presence of each Option field.
BlockDetails == [l1_batch_number : BatchNumbers,
                 commit_tx_hash : BOOLEAN, committed_at : BOOLEAN,
                 prove_tx_hash : BOOLEAN, proven_at : BOOLEAN,
                 execute_tx_hash : BOOLEAN, executed_at : BOOLEAN]

\* StatusChanges::default(); a BatchStatusChange is represented by its number.
StatusChangesDefault == [commit |-> <<>>, prove |-> <<>>, execute |-> <<>>]

is_empty(sc) == sc.commit = <<>> /\ sc.prove = <<>> /\ sc.execute = <<>>

\* 1, 2, ..., n as a sequence of rows
Rows(n) == [i \in 1..n |-> i]

RECURSIVE SeqMax(_)
SeqMax(s) == IF s = <<>> THEN 0
             ELSE LET m == SeqMax(Tail(s)) IN IF Head(s) > m THEN Head(s) ELSE m

\* get_number_of_last_l1_batch_{committed,proven,executed}_on_eth().unwrap_or_default()
last_l1_batch_on_eth(rows) == SeqMax(rows)

\* --------------------------------------------------- get_status_changes
\* The result of one update_*_batch call: Ok/Err, the changes, the local counter.
Upd(ok, sc, last) == [ok |-> ok, changes |-> sc, last |-> last]

\* update_committed_batch without the comparison with last_committed.next()
update_committed_batch_AnyNumber(sc, info, last) ==
    IF ~info.commit_tx_hash THEN Upd(TRUE, sc, last)
    ELSE IF ~info.committed_at THEN Upd(FALSE, sc, last)
    ELSE Upd(TRUE, [sc EXCEPT !.commit = Append(@, info.l1_batch_number)], last + 1)

update_committed_batch(sc, info, last) ==
    IF ~info.commit_tx_hash THEN Upd(TRUE, sc, last)
    ELSE IF info.l1_batch_number # next(last) THEN Upd(TRUE, sc, last)
    ELSE IF ~info.committed_at THEN Upd(FALSE, sc, last)
    ELSE Upd(TRUE, [sc EXCEPT !.commit = Append(@, info.l1_batch_number)], last + 1)

\* update_proven_batch that lets a missing timestamp pass as "no data yet"
update_proven_batch_NoTimestampOk(sc, info, last) ==
    IF ~info.prove_tx_hash THEN Upd(TRUE, sc, last)
    ELSE IF info.l1_batch_number # next(last) THEN Upd(TRUE, sc, last)
    ELSE IF ~info.proven_at THEN Upd(TRUE, sc, last)
    ELSE Upd(TRUE, [sc EXCEPT !.prove = Append(@, info.l1_batch_number)], last + 1)

update_proven_batch(sc, info, last) ==
    IF ~info.prove_tx_hash THEN Upd(TRUE, sc, last)
    ELSE IF info.l1_batch_number # next(last) THEN Upd(TRUE, sc, last)
    ELSE IF ~info.proven_at THEN Upd(FALSE, sc, last)
    ELSE Upd(TRUE, [sc EXCEPT !.prove = Append(@, info.l1_batch_number)], last + 1)

\* update_executed_batch without the comparison with last_executed.next()
update_executed_batch_AnyNumber(sc, info, last) ==
    IF ~info.execute_tx_hash THEN Upd(TRUE, sc, last)
    ELSE IF ~info.executed_at THEN Upd(FALSE, sc, last)
    ELSE Upd(TRUE, [sc EXCEPT !.execute = Append(@, info.l1_batch_number)], last + 1)

update_executed_batch(sc, info, last) ==
    IF ~info.execute_tx_hash THEN Upd(TRUE, sc, last)
    ELSE IF info.l1_batch_number # next(last) THEN Upd(TRUE, sc, last)
    ELSE IF ~info.executed_at THEN Upd(FALSE, sc, last)
    ELSE Upd(TRUE, [sc EXCEPT !.execute = Append(@, info.l1_batch_number)], last + 1)

\* skip_ahead whose second jump goes to the batch after the last committed one
skip_ahead_OverCommitted(info, batch, committed, proven) ==
    IF ~info.commit_tx_hash THEN 0
    ELSE IF ~info.prove_tx_hash /\ batch < committed THEN next(committed)
    ELSE IF ~info.executed_at /\ batch < proven THEN next(committed)
    ELSE batch + 1

\* skip_ahead whose first jump goes to the batch after the last proven one
skip_ahead_JumpToProven(info, batch, committed, proven) ==
    IF ~info.commit_tx_hash THEN 0
    ELSE IF ~info.prove_tx_hash /\ batch < committed THEN next(proven)
    ELSE IF ~info.executed_at /\ batch < proven THEN next(proven)
    ELSE batch + 1

\* skip_ahead that never jumps over a range
skip_ahead_NoJump(info, batch, committed, proven) ==
    IF ~info.commit_tx_hash THEN 0 ELSE batch + 1

\* "Check whether we can skip a part of the range": the next batch to probe,
\* 0 standing for break.
skip_ahead(info, batch, committed, proven) ==
    IF ~info.commit_tx_hash THEN 0
    ELSE IF ~info.prove_tx_hash /\ batch < committed THEN next(committed)
    ELSE IF ~info.executed_at /\ batch < proven THEN next(proven)
    ELSE batch + 1

\* The body of the while loop once block_details returned Some(batch_info):
\* the three updates in order, each `?` returning early, then the skip.
\* result: "internal" (Err), "break" or "continue".
loop_body(sc, loc, info) ==
    LET c == update_committed_batch(sc, info, loc.last_committed_l1_batch)
        p == update_proven_batch(c.changes, info, loc.last_proven_l1_batch)
        e == update_executed_batch(p.changes, info, loc.last_executed_l1_batch)
        nb == skip_ahead(info, loc.batch, c.last, p.last)
    IN  IF ~c.ok THEN [result |-> "internal", changes |-> c.changes, locals |-> loc]
        ELSE IF ~p.ok THEN
            [result |-> "internal", changes |-> p.changes,
             locals |-> [loc EXCEPT !.last_committed_l1_batch = c.last]]
        ELSE IF ~e.ok THEN
            [result |-> "internal", changes |-> e.changes,
             locals |-> [loc EXCEPT !.last_committed_l1_batch = c.last,
                                    !.last_proven_l1_batch = p.last]]
        ELSE
            [result |-> IF nb = 0 THEN "break" ELSE "continue",
             changes |-> e.changes,
             locals |-> [loc EXCEPT !.last_committed_l1_batch = c.last,
                                    !.last_proven_l1_batch = p.last,
                                    !.last_executed_l1_batch = e.last,
                                    !.batch = IF nb = 0 THEN @ ELSE nb]]

\* The kinds of change this answer makes the scan collect ahead of the
\* status before it: "prove" for a batch above the last committed one,
\* "execute" for a batch above the last proven one (the counters of the
\* scan, after the updates that precede in the loop body).
ahead_of_status(sc, loc, info) ==
    LET c == update_committed_batch(sc, info, loc.last_committed_l1_batch)
        p == update_proven_batch(c.changes, info, loc.last_proven_l1_batch)
        e == update_executed_batch(p.changes, info, loc.last_executed_l1_batch)
    IN  {k \in {"prove"} :
            c.ok /\ p.ok /\ p.changes # c.changes /\ info.l1_batch_number > c.last}
        \cup {k \in {"execute"} :
            c.ok /\ p.ok /\ e.ok /\ e.changes # p.changes
            /\ info.l1_batch_number > p.last}

\* What the specification calls an upstream inconsistency for a BlockDetails
\* answer: a tx hash for the batch right after a local counter, without its
\* timestamp.
MissingTimestamp(info, loc) ==
    \/ info.commit_tx_hash /\ ~info.committed_at
       /\ info.l1_batch_number = loc.last_committed_l1_batch + 1
    \/ info.prove_tx_hash /\ ~info.proven_at
       /\ info.l1_batch_number = loc.last_proven_l1_batch + 1
    \/ info.execute_tx_hash /\ ~info.executed_at
       /\ info.l1_batch_number = loc.last_executed_l1_batch + 1

\* ------------------------------------------------------------------ Init
NoLocals == [batch |-> 0, last_sealed_batch |-> 0, last_committed_l1_batch |-> 0,
             last_proven_l1_batch |-> 0, last_executed_l1_batch |-> 0]

\* no answer of the main node was processed
NoAnswer == [processed |-> FALSE, commit_tx_hash |-> FALSE, prove_tx_hash |-> FALSE,
             executed_at |-> FALSE]

NoObserved == [answer |-> NoAnswer, out_of_order |-> {}, apply_failure |-> ""]

\* the main node is not modelled
NoUpstream == [committed |-> 0, proven |-> 0, executed |-> 0]

Snapshot == [committed |-> last_committed_l1_batch, proven |-> last_proven_l1_batch,
             executed |-> last_executed_l1_batch, eth_txs |-> eth_txs]

\* A result of validate_account_nonce: Ok, an error with its three fields, or
\* a panic of the task; "none" before the call.
NonceResult(kind, expected, max, given) ==
    [kind |-> kind, expected |-> expected, max |-> max, given |-> given]

NoResult == NonceResult("none", 0, 0, 0)

NonceIdle == /\ tx_nonce = 0 /\ expected_nonce = 0 /\ max_nonce_ahead = 0
             /\ overflow_checks = FALSE /\ nonce_result = NoResult

\* No validate_tx call is under way.
NoTx == [gas_limit |-> 0, gas_per_pubdata_limit |-> 0, max_fee_per_gas |-> 0,
         max_priority_fee_per_gas |-> 0, nonce |-> 0, value |-> 0,
         factory_deps_length |-> 0, paymaster |-> FALSE]

NoConfig == [max_nonce_ahead |-> 0, max_allowed_l2_tx_gas_limit |-> 0,
             fair_l2_gas_price |-> 0]

NoAccount == [nonce |-> 0, balance |-> 0]

NoValidation == [result |-> NoResult, reads |-> <<>>]

ValidateIdle == /\ tx = NoTx /\ sender_config = NoConfig /\ account = NoAccount
                /\ validate_result = NoValidation

\* No API request is under way.
ApiIdle == /\ requests = <<>> /\ limiter = [free |-> 0, closed |-> FALSE]
           /\ proxy_cache = <<>> /\ mempool = {}
           /\ setup = [proxy |-> FALSE, master |-> FALSE]

\* No fee estimation and no contract selection is under way.
NoEstimate == [pc |-> "idle"]

NoContracts == [pc |-> "idle"]

NoFees == [pc |-> "idle"]

PureIdle == est = NoEstimate /\ contracts = NoContracts /\ fees = NoFees

TxSenderIdle == NonceIdle /\ ValidateIdle /\ ApiIdle /\ PureIdle

\* from_parts: the counters are read from a storage whose confirmed batches are
\* 1..e, 1..p, 1..c with e <= p <= c <= newest sealed batch.
from_parts ==
    \E s \in 0..MaxBatch : \E c \in 0..s : \E p \in 0..c : \E e \in 0..p :
        /\ last_sealed_batch = s
        /\ eth_txs = [commit |-> Rows(c), prove |-> Rows(p), execute |-> Rows(e)]
        /\ last_executed_l1_batch = last_l1_batch_on_eth(eth_txs.execute)
        /\ last_proven_l1_batch = last_l1_batch_on_eth(eth_txs.prove)
        /\ last_committed_l1_batch = last_l1_batch_on_eth(eth_txs.commit)

InitLocal ==
    /\ from_parts
    /\ stop = FALSE
    /\ pc = "loop"
    /\ status_changes = StatusChangesDefault
    /\ locals = NoLocals
    /\ collect_result = "none"
    /\ cycle_start = Snapshot
    /\ probed = {}
    /\ unproven_seen = {}
    /\ inconsistency_seen = FALSE
    /\ stop_at = ""
    /\ observed = NoObserved
    /\ TxSenderIdle

Init == InitLocal /\ upstream = NoUpstream

\* --------------------------------------------------- apply_status_changes
\* apply_loop without the ensure!
RECURSIVE apply_loop_NoEnsure(_, _, _, _, _)
apply_loop_NoEnsure(seq, i, limit, st, fault) ==
    IF ~st.ok \/ i > Len(seq) THEN st
    ELSE IF fault.kind = "insert" /\ fault.at = st.inserts + 1
    THEN [st EXCEPT !.ok = FALSE, !.failure = "storage"]
    ELSE apply_loop_NoEnsure(seq, i + 1, limit,
                    [ok |-> TRUE, last |-> seq[i], inserts |-> st.inserts + 1,
                     written |-> Append(st.written, seq[i]), failure |-> ""], fault)

\* One of the three `for change in &changes.X` loops from position i on:
\* ensure!(change.number <= limit), insert the row inside the transaction
\* (the insert numbered fault.at fails), set the counter.
RECURSIVE apply_loop(_, _, _, _, _)
apply_loop(seq, i, limit, st, fault) ==
    IF ~st.ok \/ i > Len(seq) THEN st
    ELSE IF ~(seq[i] <= limit) THEN [st EXCEPT !.ok = FALSE, !.failure = "ensure"]
    ELSE IF fault.kind = "insert" /\ fault.at = st.inserts + 1
    THEN [st EXCEPT !.ok = FALSE, !.failure = "storage"]
    ELSE apply_loop(seq, i + 1, limit,
                    [ok |-> TRUE, last |-> seq[i], inserts |-> st.inserts + 1,
                     written |-> Append(st.written, seq[i]), failure |-> ""], fault)

\* Storage faults one apply can meet: none, opening the connection or the
\* transaction or reading the newest header fails, the k-th insert fails,
\* the commit of the transaction fails.
Faults(sc) ==
    {[kind |-> k, at |-> 0] : k \in {"none", "begin", "commit"}}
    \cup {[kind |-> "insert", at |-> k] :
              k \in 1..(Len(sc.commit) + Len(sc.prove) + Len(sc.execute))}

\* apply_status_changes that tests the prove and execute changes against
\* the counters as they were before the call
apply_status_changes_StaleLimits(sc, committed, proven, executed, sealed, fault) ==
    LET start(last, n, ok, failure) ==
            [ok |-> ok, last |-> last, inserts |-> n, written |-> <<>>,
             failure |-> failure]
        c == apply_loop(sc.commit, 1, sealed,
                        start(committed, 0, fault.kind # "begin",
                              IF fault.kind = "begin" THEN "storage" ELSE ""), fault)
        p == apply_loop(sc.prove, 1, committed,
                        start(proven, c.inserts, c.ok, c.failure), fault)
        e == apply_loop(sc.execute, 1, proven,
                        start(executed, p.inserts, p.ok, p.failure), fault)
    IN  [ok |-> e.ok /\ fault.kind # "commit",
         failure |-> IF ~e.ok THEN e.failure
                     ELSE IF fault.kind = "commit" THEN "storage" ELSE "",
         committed |-> c.last, proven |-> p.last, executed |-> e.last,
         written |-> [commit |-> c.written, prove |-> p.written, execute |-> e.written]]

\* The three loops in order, on the counters (committed, proven, executed),
\* with the newest sealed batch read inside the transaction. failure tells
\* what made the call return an error: an ensure! or the storage.
apply_status_changes(sc, committed, proven, executed, sealed, fault) ==
    LET start(last, n, ok, failure) ==
            [ok |-> ok, last |-> last, inserts |-> n, written |-> <<>>,
             failure |-> failure]
        c == apply_loop(sc.commit, 1, sealed,
                        start(committed, 0, fault.kind # "begin",
                              IF fault.kind = "begin" THEN "storage" ELSE ""), fault)
        p == apply_loop(sc.prove, 1, c.last,
                        start(proven, c.inserts, c.ok, c.failure), fault)
        e == apply_loop(sc.execute, 1, p.last,
                        start(executed, p.inserts, p.ok, p.failure), fault)
    IN  [ok |-> e.ok /\ fault.kind # "commit",
         failure |-> IF ~e.ok THEN e.failure
                     ELSE IF fault.kind = "commit" THEN "storage" ELSE "",
         committed |-> c.last, proven |-> p.last, executed |-> e.last,
         written |-> [commit |-> c.written, prove |-> p.written, execute |-> e.written]]

\* a transaction that is never committed: its inserts are always lost
transaction_outcome_NoCommit(rows, written, ok) == rows

\* inserts made directly on the connection: nothing is rolled back
transaction_outcome_NoRollback(rows, written, ok) ==
    [a \in {"commit", "prove", "execute"} |-> rows[a] \o written[a]]

\* start_transaction ... transaction.commit(): the rows inserted through the
\* transaction are in the table iff the function reached the commit and the
\* commit succeeded; dropping the transaction rolls them back.
transaction_outcome(rows, written, ok) ==
    IF ok THEN [a \in {"commit", "prove", "execute"} |-> rows[a] \o written[a]]
    ELSE rows

\* ------------------------------------------------------------------- run
\* run that drops what was collected when the collection ended with an error
run_next_DropOnError(result, sc) ==
    IF result = "internal" THEN "failed"
    ELSE IF result = "web3" \/ is_empty(sc) THEN "sleep"
    ELSE "apply"

\* The match on the result of get_status_changes and the is_empty test:
\* where run goes after the collection.
run_next(result, sc) ==
    IF result = "internal" THEN "failed"
    ELSE IF is_empty(sc) THEN "sleep"
    ELSE "apply"

UnchangedState == UNCHANGED <<last_committed_l1_batch, last_proven_l1_batch,
                              last_executed_l1_batch, eth_txs>>
UnchangedHistory == UNCHANGED <<cycle_start, probed, unproven_seen, inconsistency_seen,
                                stop_at, observed>>

\* a loop that never looks at the stop signal
run_loop_head_NoStop(stop_signal) == "cycle"

\* The head of the loop: `if *stop_receiver.borrow() { return Ok(()) }`,
\* otherwise a new cycle.
run_loop_head(stop_signal) == IF stop_signal THEN "stopped" ELSE "cycle"

\* `if *stop_receiver.borrow() { return Ok(()) }`
RunStop ==
    /\ pc = "loop" /\ run_loop_head(stop) = "stopped"
    /\ pc' = "stopped"
    /\ UNCHANGED <<status_changes, locals, collect_result, last_sealed_batch, stop>>
    /\ UnchangedState /\ UnchangedHistory /\ UNCHANGED <<upstream, tx_sender_vars>>

\* A new cycle: StatusChanges::default() and the head of get_status_changes
\* (the read of the newest sealed batch, which may fail, and the locals).
BeginCycle ==
    /\ pc = "loop" /\ run_loop_head(stop) = "cycle"
    /\ status_changes' = StatusChangesDefault
    /\ \E db_ok \in BOOLEAN :
        IF db_ok
        THEN /\ locals' = [batch |-> next(last_executed_l1_batch),
                           last_sealed_batch |-> last_sealed_batch,
                           last_committed_l1_batch |-> last_committed_l1_batch,
                           last_proven_l1_batch |-> last_proven_l1_batch,
                           last_executed_l1_batch |-> last_executed_l1_batch]
             /\ collect_result' = "none"
             /\ pc' = "scan"
        ELSE /\ locals' = NoLocals
             /\ collect_result' = "internal"
             /\ pc' = "collected"
    /\ cycle_start' = Snapshot
    /\ probed' = {}
    /\ unproven_seen' = {}
    /\ inconsistency_seen' = FALSE
    /\ observed' = [observed EXCEPT !.answer = NoAnswer, !.out_of_order = {}]
    /\ UNCHANGED <<last_sealed_batch, stop, stop_at>>
    /\ UnchangedState /\ UNCHANGED <<upstream, tx_sender_vars>>

InScan == pc = "scan" /\ locals.batch <= locals.last_sealed_batch

\* get_status_changes returns with `result`.
Return(result) ==
    /\ collect_result' = result
    /\ pc' = "collected"

\* `while batch <= last_sealed_batch` is false: Ok(())
ScanExit ==
    /\ pc = "scan" /\ ~(locals.batch <= locals.last_sealed_batch)
    /\ Return("ok")
    /\ UNCHANGED <<status_changes, locals, last_sealed_batch, stop>>
    /\ UnchangedState /\ UnchangedHistory /\ UNCHANGED <<upstream, tx_sender_vars>>

\* One iteration in which resolve_l1_batch_to_miniblock or block_details
\* fails with a ClientError: `?` returns UpdaterError::Web3.
ProbeRpcError ==
    /\ InScan
    /\ Return("web3")
    /\ probed' = probed \cup {locals.batch}
    /\ observed' = [observed EXCEPT !.answer = NoAnswer]
    /\ UNCHANGED <<status_changes, locals, last_sealed_batch, stop, stop_at,
                   cycle_start, unproven_seen, inconsistency_seen>>
    /\ UnchangedState /\ UNCHANGED <<upstream, tx_sender_vars>>

\* resolve_l1_batch_to_miniblock returns None: return Ok(())
ProbeNotSealedUpstream ==
    /\ InScan
    /\ Return("ok")
    /\ probed' = probed \cup {locals.batch}
    /\ observed' = [observed EXCEPT !.answer = NoAnswer]
    /\ UNCHANGED <<status_changes, locals, last_sealed_batch, stop, stop_at,
                   cycle_start, unproven_seen, inconsistency_seen>>
    /\ UnchangedState /\ UNCHANGED <<upstream, tx_sender_vars>>

\* block_details returns None for the resolved miniblock: Err(Internal)
ProbeNoDetails ==
    /\ InScan
    /\ Return("internal")
    /\ probed' = probed \cup {locals.batch}
    /\ inconsistency_seen' = TRUE
    /\ observed' = [observed EXCEPT !.answer = NoAnswer]
    /\ UNCHANGED <<status_changes, locals, last_sealed_batch, stop, stop_at,
                   cycle_start, unproven_seen>>
    /\ UnchangedState /\ UNCHANGED <<upstream, tx_sender_vars>>

\* block_details returns Some(batch_info) with batch_info = info.
ProbeDetailsWith(info) ==
    /\ InScan
    /\ LET r == loop_body(status_changes, locals, info) IN
        /\ status_changes' = r.changes
        /\ locals' = r.locals
        /\ IF r.result = "internal" THEN Return("internal")
           ELSE IF r.result = "break" THEN Return("ok")
           ELSE UNCHANGED <<collect_result, pc>>
        /\ inconsistency_seen' = (inconsistency_seen \/ MissingTimestamp(info, locals))
        /\ unproven_seen' = IF info.commit_tx_hash /\ ~info.prove_tx_hash
                            THEN unproven_seen \cup {locals.batch} ELSE unproven_seen
        /\ observed' = [observed EXCEPT
               !.answer = [processed |-> r.result # "internal",
                           commit_tx_hash |-> info.commit_tx_hash,
                           prove_tx_hash |-> info.prove_tx_hash,
                           executed_at |-> info.executed_at],
               !.out_of_order = @ \cup ahead_of_status(status_changes, locals, info)]
    /\ probed' = probed \cup {locals.batch}
    /\ UNCHANGED <<last_sealed_batch, stop, stop_at, cycle_start>>
    /\ UnchangedState /\ UNCHANGED <<upstream, tx_sender_vars>>

\* block_details returns Some(batch_info), any answer the main node can give.
ProbeDetails == \E info \in BlockDetails : ProbeDetailsWith(info)

\* The match on the result and the `if status_changes.is_empty()` test;
\* get_status_changes has returned and its batch_info is gone.
RunMatch ==
    /\ pc = "collected"
    /\ pc' = run_next(collect_result, status_changes)
    /\ observed' = [observed EXCEPT !.answer = NoAnswer]
    /\ UNCHANGED <<status_changes, locals, collect_result, last_sealed_batch, stop>>
    /\ UNCHANGED <<cycle_start, probed, unproven_seen, inconsistency_seen, stop_at>>
    /\ UnchangedState /\ UNCHANGED <<upstream, tx_sender_vars>>

\* tokio::time::sleep(self.sleep_interval).await; continue
Sleep ==
    /\ pc = "sleep"
    /\ pc' = "loop"
    /\ UNCHANGED <<status_changes, locals, collect_result, last_sealed_batch, stop>>
    /\ UnchangedState /\ UnchangedHistory /\ UNCHANGED <<upstream, tx_sender_vars>>

\* self.apply_status_changes(status_changes).await?
Apply ==
    /\ pc = "apply"
    /\ \E fault \in Faults(status_changes) :
        LET r == apply_status_changes(status_changes, last_committed_l1_batch,
                                      last_proven_l1_batch, last_executed_l1_batch,
                                      last_sealed_batch, fault) IN
        /\ last_committed_l1_batch' = r.committed
        /\ last_proven_l1_batch' = r.proven
        /\ last_executed_l1_batch' = r.executed
        /\ eth_txs' = transaction_outcome(eth_txs, r.written, r.ok)
        /\ pc' = IF r.ok THEN "loop" ELSE "failed"
        /\ observed' = [observed EXCEPT !.apply_failure = r.failure,
                                        !.out_of_order = IF r.ok THEN {} ELSE @]
    /\ status_changes' = StatusChangesDefault
    /\ UNCHANGED <<locals, collect_result, last_sealed_batch, stop>>
    /\ UNCHANGED <<cycle_start, probed, unproven_seen, inconsistency_seen, stop_at>>
    /\ UNCHANGED <<upstream, tx_sender_vars>>

\* The node seals one more L1 batch locally.
SealBatch ==
    /\ last_sealed_batch < MaxBatch
    /\ last_sealed_batch' = last_sealed_batch + 1
    /\ UNCHANGED <<pc, status_changes, locals, collect_result, stop>>
    /\ UnchangedState /\ UnchangedHistory /\ UNCHANGED <<upstream, tx_sender_vars>>

\* The stop signal is sent.
SetStop ==
    /\ ~stop
    /\ stop' = TRUE
    /\ stop_at' = pc
    /\ UNCHANGED <<pc, status_changes, locals, collect_result, last_sealed_batch>>
    /\ UnchangedState
    /\ UNCHANGED <<cycle_start, probed, unproven_seen, inconsistency_seen, observed>>
    /\ UNCHANGED <<upstream, tx_sender_vars>>

Next ==
    \/ RunStop \/ BeginCycle \/ ScanExit
    \/ ProbeRpcError \/ ProbeNotSealedUpstream \/ ProbeNoDetails \/ ProbeDetails
    \/ RunMatch \/ Sleep \/ Apply
    \/ SealBatch \/ SetStop

Spec == Init /\ [][Next]_vars

\* ------------------------------------------- TxSender: the nonce window
\* 2^32 in the program
U32 == 2 ^ U32Bits

\* expected_nonce + max_nonce_ahead on u32: the sum when it fits; otherwise a
\* panic in a build with overflow checks, the wrapped value without them.
u32_add(a, b, checks) ==
    IF a + b < U32 THEN [panic |-> FALSE, value |-> a + b]
    ELSE IF checks THEN [panic |-> TRUE, value |-> 0]
    ELSE [panic |-> FALSE, value |-> (a + b) % U32]

validate_account_nonce(nonce, expected, ahead, checks) ==
    LET max_nonce == u32_add(expected, ahead, checks) IN
    IF max_nonce.panic THEN NonceResult("panic", 0, 0, 0)
    ELSE IF nonce < expected
    THEN NonceResult("NonceIsTooLow", expected, max_nonce.value, nonce)
    ELSE IF ~(expected <= nonce /\ nonce <= max_nonce.value)
    THEN NonceResult("NonceIsTooHigh", expected, max_nonce.value, nonce)
    ELSE NonceResult("Ok", 0, 0, 0)

\* The updater is not running in the nonce specification.
UpdaterIdle ==
    /\ last_committed_l1_batch = 0 /\ last_proven_l1_batch = 0
    /\ last_executed_l1_batch = 0 /\ last_sealed_batch = 0
    /\ eth_txs = [commit |-> <<>>, prove |-> <<>>, execute |-> <<>>]
    /\ stop = FALSE /\ pc = "loop" /\ status_changes = StatusChangesDefault
    /\ locals = NoLocals /\ collect_result = "none"
    /\ cycle_start = Snapshot /\ probed = {} /\ unproven_seen = {}
    /\ inconsistency_seen = FALSE /\ stop_at = ""
    /\ observed = NoObserved /\ upstream = NoUpstream

InitNonce ==
    /\ UpdaterIdle
    /\ tx_nonce \in 0..(U32 - 1)
    /\ expected_nonce \in 0..(U32 - 1)
    /\ max_nonce_ahead \in 0..(U32 - 1)
    /\ overflow_checks \in BOOLEAN
    /\ nonce_result = NoResult
    /\ ValidateIdle /\ ApiIdle /\ PureIdle

ValidateAccountNonce ==
    /\ nonce_result = NoResult
    /\ nonce_result' = validate_account_nonce(tx_nonce, expected_nonce,
                                              max_nonce_ahead, overflow_checks)
    /\ UNCHANGED <<tx_nonce, expected_nonce, max_nonce_ahead, overflow_checks>>
    /\ UNCHANGED <<updater_vars, validate_vars, api_vars, pure_vars>>

NextNonce == ValidateAccountNonce

SpecNonce == InitNonce /\ [][NextNonce]_vars

\* ---------------------------------------------- TxSender: validate_tx
\* u64::MAX + 1 and U256::MAX + 1 of the model, in proportion to its u32
U64 == 2 ^ (U32Bits + 1)
U256 == 2 ^ (U32Bits + 2)

\* intrinsic_consts.l2_tx_intrinsic_gas
L2_TX_INTRINSIC_GAS == 1
\* zksync_types::MAX_NEW_FACTORY_DEPS
MAX_NEW_FACTORY_DEPS == 32

\* A SubmitTxError (or Ok, or a panic) with up to three fields.
TxResult(kind, a, b, c) == NonceResult(kind, a, b, c)

TxOk == TxResult("Ok", 0, 0, 0)

Min(a, b) == IF a <= b THEN a ELSE b

Max(a, b) == IF a > b THEN a ELSE b

\* U256 `+` and `*`: the uint type panics on overflow in every build.
u256_add(a, b) == IF a + b < U256 THEN [panic |-> FALSE, value |-> a + b]
                  ELSE [panic |-> TRUE, value |-> 0]

u256_mul(a, b) == IF a * b < U256 THEN [panic |-> FALSE, value |-> a * b]
                  ELSE [panic |-> TRUE, value |-> 0]

\* the checks of validate_tx that read no storage, without the
\* gas_per_pubdata_limit comparison
validate_tx_stateless_NoPubdataCheck(t, config) ==
    IF t.gas_limit > U32 - 1 THEN TxResult("GasLimitIsTooBig", 0, 0, 0)
    ELSE IF t.gas_limit > config.max_allowed_l2_tx_gas_limit
    THEN TxResult("GasLimitIsTooBig", 0, 0, 0)
    ELSE IF t.max_fee_per_gas < config.fair_l2_gas_price
    THEN TxResult("MaxFeePerGasTooLow", 0, 0, 0)
    ELSE IF t.max_fee_per_gas < t.max_priority_fee_per_gas
    THEN TxResult("MaxPriorityFeeGreaterThanMaxFee", 0, 0, 0)
    ELSE IF t.factory_deps_length > MAX_NEW_FACTORY_DEPS
    THEN TxResult("TooManyFactoryDependencies", t.factory_deps_length, MAX_NEW_FACTORY_DEPS, 0)
    ELSE IF t.gas_limit < L2_TX_INTRINSIC_GAS THEN TxResult("IntrinsicGas", 0, 0, 0)
    ELSE TxOk

\* the checks of validate_tx that read no storage, in the order of the code
validate_tx_stateless(t, config) ==
    IF t.gas_limit > U32 - 1 \/ t.gas_per_pubdata_limit > U32 - 1
    THEN TxResult("GasLimitIsTooBig", 0, 0, 0)
    ELSE IF t.gas_limit > config.max_allowed_l2_tx_gas_limit
    THEN TxResult("GasLimitIsTooBig", 0, 0, 0)
    ELSE IF t.max_fee_per_gas < config.fair_l2_gas_price
    THEN TxResult("MaxFeePerGasTooLow", 0, 0, 0)
    ELSE IF t.max_fee_per_gas < t.max_priority_fee_per_gas
    THEN TxResult("MaxPriorityFeeGreaterThanMaxFee", 0, 0, 0)
    ELSE IF t.factory_deps_length > MAX_NEW_FACTORY_DEPS
    THEN TxResult("TooManyFactoryDependencies", t.factory_deps_length, MAX_NEW_FACTORY_DEPS, 0)
    ELSE IF t.gas_limit < L2_TX_INTRINSIC_GAS THEN TxResult("IntrinsicGas", 0, 0, 0)
    ELSE TxOk

\* validate_enough_balance: the balance is read only without a paymaster
validate_enough_balance(t, balance, fair_l2_gas_price) ==
    IF t.paymaster THEN TxOk
    ELSE
        LET with_priority == u256_add(fair_l2_gas_price, t.max_priority_fee_per_gas)
            gas_price == Min(t.max_fee_per_gas, with_priority.value)
            max_fee == u256_mul(t.gas_limit, gas_price)
            max_fee_and_value == u256_add(max_fee.value, t.value)
        IN  IF with_priority.panic \/ max_fee.panic \/ max_fee_and_value.panic
            THEN TxResult("panic", 0, 0, 0)
            ELSE IF balance < max_fee_and_value.value
            THEN TxResult("NotEnoughBalanceForFeeValue", balance, max_fee.value, t.value)
            ELSE TxOk

\* validate_tx: the stateless checks, then the nonce, then the balance; each
\* failure returns at once. reads lists the storage reads that were made.
validate_tx(t, config, acc, checks) ==
    LET stateless == validate_tx_stateless(t, config)
        nonce == validate_account_nonce(t.nonce, acc.nonce, config.max_nonce_ahead, checks)
        balance == validate_enough_balance(t, acc.balance, config.fair_l2_gas_price)
    IN  IF stateless # TxOk THEN [result |-> stateless, reads |-> <<>>]
        ELSE IF nonce # TxOk THEN [result |-> nonce, reads |-> <<"nonce">>]
        ELSE [result |-> balance,
              reads |-> IF t.paymaster THEN <<"nonce">> ELSE <<"nonce", "balance">>]

\* Transactions, configurations and accounts validate_tx is applied to: the
\* values around each threshold of the checks and the largest of each type.
ValidateTxs ==
    [gas_limit : {0, 1, 2, U32 - 1, U32},
     gas_per_pubdata_limit : {U32 - 1, U32},
     max_fee_per_gas : {0, 1, 2},
     max_priority_fee_per_gas : {0, 1, 2},
     nonce : {0, 1, 2},
     value : {0, 1},
     factory_deps_length : {MAX_NEW_FACTORY_DEPS, MAX_NEW_FACTORY_DEPS + 1},
     paymaster : BOOLEAN]

ValidateConfigs ==
    [max_nonce_ahead : {0, U32 - 1},
     max_allowed_l2_tx_gas_limit : {2, U32 - 1},
     fair_l2_gas_price : {0, 1}]

ValidateAccounts == [nonce : {1}, balance : {0, 2}]

InitValidate ==
    /\ UpdaterIdle /\ NonceIdle /\ ApiIdle /\ PureIdle
    /\ tx \in ValidateTxs
    /\ sender_config \in ValidateConfigs
    /\ account \in ValidateAccounts
    /\ validate_result = NoValidation

ValidateTx ==
    /\ validate_result = NoValidation
    /\ \E checks \in BOOLEAN :
           validate_result' = validate_tx(tx, sender_config, account, checks)
    /\ UNCHANGED <<tx, sender_config, account>>
    /\ UNCHANGED <<updater_vars, nonce_vars, api_vars, pure_vars>>

NextValidate == ValidateTx

SpecValidate == InitValidate /\ [][NextValidate]_vars

\* Transactions that passed the checks before the balance check, with the
\* configuration and the balance, for validate_enough_balance.
BalanceTxs ==
    {t \in [gas_limit : {0, 1, 2, 3, U32 - 1},
            gas_per_pubdata_limit : {0},
            max_fee_per_gas : {0, 1, 2, 3, U256 - 2, U256 - 1},
            max_priority_fee_per_gas : {0, 1, 2, 3, U256 - 2, U256 - 1},
            nonce : {0},
            value : {0, 1, 2, U256 - 1},
            factory_deps_length : {0},
            paymaster : BOOLEAN] :
        t.max_priority_fee_per_gas <= t.max_fee_per_gas}

BalanceConfigs ==
    [max_nonce_ahead : {0},
     max_allowed_l2_tx_gas_limit : {U32 - 1},
     fair_l2_gas_price : {0, 1, 2, U64 - 1}]

BalanceAccounts == [nonce : {0}, balance : (0..6) \cup {U256 - 1}]

InitBalance ==
    /\ UpdaterIdle /\ NonceIdle /\ ApiIdle /\ PureIdle
    /\ tx \in BalanceTxs
    /\ sender_config \in BalanceConfigs
    /\ account \in BalanceAccounts
    /\ sender_config.fair_l2_gas_price <= tx.max_fee_per_gas
    /\ validate_result = NoValidation

ValidateEnoughBalance ==
    /\ validate_result = NoValidation
    /\ validate_result' =
           [result |-> validate_enough_balance(tx, account.balance,
                                               sender_config.fair_l2_gas_price),
            reads |-> IF tx.paymaster THEN <<>> ELSE <<"balance">>]
    /\ UNCHANGED <<tx, sender_config, account>>
    /\ UNCHANGED <<updater_vars, nonce_vars, api_vars, pure_vars>>

NextBalance == ValidateEnoughBalance

SpecBalance == InitBalance /\ [][NextBalance]_vars

\* ------------------------------------- TxSender: the requests of the API
\* submit_tx, get_txs_fee_in_wei (estimate_fee) and eth_call run as concurrent
\* requests of one TxSender. A request's pc names the await it is suspended
\* at; an action is the code from that await to the next one (or the return).

Requests == 1 .. NumRequests

Operations == {"submit_tx", "estimate_fee", "eth_call"}

TxHashes == {1, 2}

\* TxSenderBuilder::build refuses to build without both proxy and master pool.
Setups == {s \in [proxy : BOOLEAN, master : BOOLEAN] : s.master \/ s.proxy}

\* The search starts at MAX_L2_TX_GAS_LIMIT, scaled to the model's u32.
MAX_L2_TX_GAS_LIMIT == U32 \div 4

\* acceptable_overestimation of the requests of the model
AcceptableOverestimation == 1

\* The configuration and the account the submitted transactions meet.
SenderConfig == [max_nonce_ahead |-> 1, max_allowed_l2_tx_gas_limit |-> U32 - 1,
                 fair_l2_gas_price |-> 1]

SenderAccount == [nonce |-> 0, balance |-> 0]

\* A transaction validate_tx accepts, and one it rejects (IntrinsicGas).
SubmitTxs ==
    LET good == [gas_limit |-> 1, gas_per_pubdata_limit |-> U32 - 1,
                 max_fee_per_gas |-> 1, max_priority_fee_per_gas |-> 0,
                 nonce |-> 0, value |-> 0, factory_deps_length |-> 0,
                 paymaster |-> TRUE]
    IN  {good, [good EXCEPT !.gas_limit = 0]}

\* The account nonce get_expected_nonce can read back after the insert.
ExpectedNonces == {1, U32 - 1}

NewRequest(op) ==
    [op |-> op, pc |-> "start", slots |-> 0, trace |-> <<>>, observed |-> <<>>,
     result |-> NoResult, hash |-> 0, nonce |-> 0, published |-> FALSE,
     lower_bound |-> 0, upper_bound |-> 0]

OkKinds == {"Proxied", "Added", "Replaced", "Fee", "Output"}

\* VmConcurrencyLimiter::acquire: None once closed, a permit when a slot is
\* free, pending otherwise.
limiter_acquire(l) ==
    IF l.closed THEN "None" ELSE IF l.free > 0 THEN "Some" ELSE "Pending"

\* `return` and `?`: the function's bindings, the permit among them, drop.
return_with(q, result) == [q EXCEPT !.pc = "done", !.result = result, !.slots = 0]

\* The request always goes on after acquire(), with or without a permit.
acquire_permit_Unwrap(q, l, next_pc) ==
    IF limiter_acquire(l) = "None"
    THEN [q EXCEPT !.pc = next_pc, !.trace = Append(@, "acquire_none")]
    ELSE [q EXCEPT !.pc = next_pc, !.slots = @ + 1, !.trace = Append(@, "acquire")]

\* let vm_permit = limiter.acquire().await;
\* let vm_permit = vm_permit.ok_or(SubmitTxError::ServerShuttingDown)?;
acquire_permit(q, l, next_pc) ==
    IF limiter_acquire(l) = "None"
    THEN return_with([q EXCEPT !.trace = Append(@, "acquire_none")],
                TxResult("ServerShuttingDown", 0, 0, 0))
    ELSE [q EXCEPT !.pc = next_pc, !.slots = @ + 1, !.trace = Append(@, "acquire")]

\* The dry-run takes the permit itself instead of a clone of it.
holds_permit_after_MoveInDryRun(op, step) ==
    CASE op = "submit_tx" -> FALSE
      [] op = "estimate_fee" -> step \in {"pubdata", "search"}
      [] op = "eth_call" -> FALSE

\* Whether the request's vm_permit binding is alive after a sandbox step: the
\* step was given a reference or a clone (TRUE) or the permit itself (FALSE).
holds_permit_after(op, step) ==
    CASE op = "submit_tx" -> step = "dry_run"
      [] op = "estimate_fee" -> step \in {"pubdata", "search"}
      [] op = "eth_call" -> FALSE

After(q, step) ==
    [q EXCEPT !.slots = IF holds_permit_after(q.op, step) THEN @ ELSE 0]

\* VmPermit: a permit given out takes a slot of the pool, its drop gives the
\* slot back.
limiter_after(l, slots_before, slots_after) ==
    [l EXCEPT !.free = @ + slots_before - slots_after]

\* A step of request r: its new state, and the slots it took or gave back.
Step(r, new) ==
    /\ requests' = [requests EXCEPT ![r] = new]
    /\ limiter' = limiter_after(limiter, requests[r].slots, new.slots)

InitApi ==
    /\ UpdaterIdle /\ NonceIdle /\ ValidateIdle /\ PureIdle
    /\ requests \in [Requests -> {NewRequest(op) : op \in Operations}]
    /\ limiter = [free |-> VmPermits, closed |-> FALSE]
    /\ proxy_cache = [h \in TxHashes |-> 0]
    /\ mempool = {}
    /\ setup \in Setups

\* submit_tx: validate_tx, then the Validate observation.
SubmitValidate(r) ==
    /\ requests[r].op = "submit_tx" /\ requests[r].pc = "start"
    /\ \E t \in SubmitTxs, h \in TxHashes :
        LET q == [requests[r] EXCEPT !.hash = h, !.nonce = t.nonce]
            v == validate_tx(t, SenderConfig, SenderAccount, FALSE).result
        IN  Step(r, IF v # TxOk THEN return_with(q, v)
                    ELSE [q EXCEPT !.pc = "acquire",
                                   !.trace = Append(@, "validate_ok"),
                                   !.observed = Append(@, "Validate")])
    /\ UNCHANGED <<proxy_cache, mempool, setup>>
    /\ UNCHANGED <<updater_vars, nonce_vars, validate_vars, pure_vars>>

SubmitAcquire(r) ==
    /\ requests[r].op = "submit_tx" /\ requests[r].pc = "acquire"
    /\ limiter_acquire(limiter) # "Pending"
    /\ Step(r, acquire_permit(requests[r], limiter, "dry_run"))
    /\ UNCHANGED <<proxy_cache, mempool, setup>>
    /\ UNCHANGED <<updater_vars, nonce_vars, validate_vars, pure_vars>>

\* execute_tx_in_sandbox on a clone of the permit, then the DryRun observation
SubmitDryRun(r) ==
    /\ requests[r].op = "submit_tx" /\ requests[r].pc = "dry_run"
    /\ \E published_bytecodes \in BOOLEAN :
        Step(r, After([requests[r] EXCEPT !.pc = "verify",
                                          !.published = published_bytecodes,
                                          !.trace = Append(@, "dry_run"),
                                          !.observed = Append(@, "DryRun")],
                      "dry_run"))
    /\ UNCHANGED <<proxy_cache, mempool, setup>>
    /\ UNCHANGED <<updater_vars, nonce_vars, validate_vars, pure_vars>>

\* the route is the local insert even when a proxy is configured
after_verify_LocalRoute(q, valid, seal_accepts, proxy) ==
    IF ~valid
    THEN return_with([q EXCEPT !.trace = Append(@, "sandbox_validate_err")],
                TxResult("ValidationFailed", 0, 0, 0))
    ELSE IF ~q.published
    THEN return_with([q EXCEPT !.trace = @ \o <<"sandbox_validate_ok", "bytecodes_err">>],
                TxResult("FailedToPublishCompressedBytecodes", 0, 0, 0))
    ELSE IF ~seal_accepts
    THEN return_with([q EXCEPT !.trace = @ \o <<"sandbox_validate_ok", "bytecodes_ok",
                                           "seal_reject">>],
                TxResult("Unexecutable", 0, 0, 0))
    ELSE [q EXCEPT !.trace = @ \o <<"sandbox_validate_ok", "bytecodes_ok", "seal_ok">>,
                   !.pc = "insert"]

\* ensure_tx_executable is asked before the validation result is looked at.
after_verify_SealFirst(q, valid, seal_accepts, proxy) ==
    IF ~seal_accepts
    THEN return_with([q EXCEPT !.trace = @ \o <<IF valid THEN "sandbox_validate_ok"
                                           ELSE "sandbox_validate_err",
                                           "seal_reject">>],
                TxResult("Unexecutable", 0, 0, 0))
    ELSE IF ~valid
    THEN return_with([q EXCEPT !.trace = @ \o <<"sandbox_validate_err", "seal_ok">>],
                TxResult("ValidationFailed", 0, 0, 0))
    ELSE [q EXCEPT !.trace = @ \o <<"sandbox_validate_ok", "seal_ok">>,
                   !.pc = IF proxy THEN "proxy_save" ELSE "insert"]

\* What follows validate_tx_in_sandbox up to the next await: the validation
\* result, published_bytecodes, ensure_tx_executable, then the route.
after_verify(q, valid, seal_accepts, proxy) ==
    IF ~valid
    THEN return_with([q EXCEPT !.trace = Append(@, "sandbox_validate_err")],
                TxResult("ValidationFailed", 0, 0, 0))
    ELSE IF ~q.published
    THEN return_with([q EXCEPT !.trace = @ \o <<"sandbox_validate_ok", "bytecodes_err">>],
                TxResult("FailedToPublishCompressedBytecodes", 0, 0, 0))
    ELSE IF ~seal_accepts
    THEN return_with([q EXCEPT !.trace = @ \o <<"sandbox_validate_ok", "bytecodes_ok",
                                           "seal_reject">>],
                TxResult("Unexecutable", 0, 0, 0))
    ELSE [q EXCEPT !.trace = @ \o <<"sandbox_validate_ok", "bytecodes_ok", "seal_ok">>,
                   !.pc = IF proxy THEN "proxy_save" ELSE "insert"]

\* validate_tx_in_sandbox, which takes the permit, the VerifyExecute
\* observation, and the checks up to the route.
SubmitVerify(r) ==
    /\ requests[r].op = "submit_tx" /\ requests[r].pc = "verify"
    /\ \E valid \in BOOLEAN, seal_accepts \in BOOLEAN :
        Step(r, after_verify(After([requests[r] EXCEPT
                                        !.observed = Append(@, "VerifyExecute")],
                                   "verify"),
                             valid, seal_accepts, setup.proxy))
    /\ UNCHANGED <<proxy_cache, mempool, setup>>
    /\ UNCHANGED <<updater_vars, nonce_vars, validate_vars, pure_vars>>

\* TxProxy's cache, one entry per tx hash: save_tx puts the tx under its hash
\* (the model keeps the request that saved it, 0 for no entry), forget_tx
\* removes the entry of the hash, whoever saved it.
save_tx(cache, hash, r) == [cache EXCEPT ![hash] = r]

forget_tx(cache, hash) == [cache EXCEPT ![hash] = 0]

\* proxy.save_tx(tx.hash(), tx): the cache maps the hash to the saved tx,
\* here to the request that saved it (0: no entry).
ProxySave(r) ==
    /\ requests[r].op = "submit_tx" /\ requests[r].pc = "proxy_save"
    /\ proxy_cache' = save_tx(proxy_cache, requests[r].hash, r)
    /\ Step(r, [requests[r] EXCEPT !.pc = "proxy_submit",
                                   !.trace = Append(@, "proxy_save")])
    /\ UNCHANGED <<mempool, setup>>
    /\ UNCHANGED <<updater_vars, nonce_vars, validate_vars, pure_vars>>

\* proxy.submit_tx(&tx).await?: an error of the main node returns at once
ProxySubmit(r) ==
    /\ requests[r].op = "submit_tx" /\ requests[r].pc = "proxy_submit"
    /\ \E accepted \in BOOLEAN :
        LET q == [requests[r] EXCEPT !.trace = Append(@, "proxy_submit")]
        IN  Step(r, IF accepted THEN [q EXCEPT !.pc = "proxy_forget"]
                    ELSE return_with(q, TxResult("ProxyError", 0, 0, 0)))
    /\ UNCHANGED <<proxy_cache, mempool, setup>>
    /\ UNCHANGED <<updater_vars, nonce_vars, validate_vars, pure_vars>>

\* proxy.forget_tx(tx.hash()), the TxProxy observation, Ok(Proxied)
ProxyForget(r) ==
    /\ requests[r].op = "submit_tx" /\ requests[r].pc = "proxy_forget"
    /\ proxy_cache' = forget_tx(proxy_cache, requests[r].hash)
    /\ Step(r, return_with([requests[r] EXCEPT !.trace = Append(@, "proxy_forget"),
                                               !.observed = Append(@, "TxProxy")],
                           TxResult("Proxied", 0, 0, 0)))
    /\ UNCHANGED <<mempool, setup>>
    /\ UNCHANGED <<updater_vars, nonce_vars, validate_vars, pure_vars>>

\* The results insert_transaction_l2 can give.
L2TxSubmissionResult == {"Added", "Replaced", "AlreadyExecuted", "Duplicate"}

\* DbInsert is observed whatever the insert answered.
insert_observed_Always(res) == TRUE

\* The `_` arm of the match is the one that observes DbInsert.
insert_observed(res) == res \notin {"AlreadyExecuted", "Duplicate"}

\* match submission_res_handle: the result submit_tx returns, given the
\* nonce get_expected_nonce reads in the AlreadyExecuted arm.
translate_insert(res, expected, nonce, hash, checks) ==
    IF res = "AlreadyExecuted"
    THEN LET max_nonce == u32_add(expected, SenderConfig.max_nonce_ahead, checks)
         IN  IF max_nonce.panic THEN TxResult("panic", 0, 0, 0)
             ELSE TxResult("NonceIsTooLow", expected, max_nonce.value, nonce)
    ELSE IF res = "Duplicate" THEN TxResult("TxDuplication", hash, 0, 0)
    ELSE TxResult(res, 0, 0, 0)

\* insert_transaction_l2 on the master pool and the translation of its result
Insert(r) ==
    /\ requests[r].op = "submit_tx" /\ requests[r].pc = "insert"
    /\ setup.master
    /\ \E res \in L2TxSubmissionResult, expected \in ExpectedNonces, checks \in BOOLEAN :
        LET q == requests[r] IN
        /\ mempool' = IF res \in {"Added", "Replaced"} THEN mempool \cup {q.hash}
                      ELSE mempool
        /\ Step(r, return_with(
                    [q EXCEPT !.trace = @ \o <<"insert", res>>,
                              !.observed = IF insert_observed(res)
                                           THEN Append(@, "DbInsert") ELSE @],
                    translate_insert(res, expected, q.nonce, q.hash, checks)))
    /\ UNCHANGED <<proxy_cache, setup>>
    /\ UNCHANGED <<updater_vars, nonce_vars, validate_vars, pure_vars>>

\* get_txs_fee_in_wei up to the permit: the transfer of tx.value is checked
\* against the balance before anything else.
EstimatePrepare(r) ==
    /\ requests[r].op = "estimate_fee" /\ requests[r].pc = "start"
    /\ \E enough_funds \in BOOLEAN :
        Step(r, IF enough_funds
                THEN [requests[r] EXCEPT !.pc = "acquire",
                                         !.trace = Append(@, "transfer_ok")]
                ELSE return_with(requests[r],
                                 TxResult("InsufficientFundsForTransfer", 0, 0, 0)))
    /\ UNCHANGED <<proxy_cache, mempool, setup>>
    /\ UNCHANGED <<updater_vars, nonce_vars, validate_vars, pure_vars>>

EstimateAcquire(r) ==
    /\ requests[r].op = "estimate_fee" /\ requests[r].pc = "acquire"
    /\ limiter_acquire(limiter) # "Pending"
    /\ Step(r, acquire_permit(requests[r], limiter, "pubdata"))
    /\ UNCHANGED <<proxy_cache, mempool, setup>>
    /\ UNCHANGED <<updater_vars, nonce_vars, validate_vars, pure_vars>>

\* while lower_bound + acceptable_overestimation < upper_bound
search_continues(lower_bound, upper_bound) ==
    lower_bound + AcceptableOverestimation < upper_bound

\* get_pubdata_for_factory_deps on a reference to the permit, the pubdata
\* limit, and the bounds the search starts from
EstimatePubdata(r) ==
    /\ requests[r].op = "estimate_fee" /\ requests[r].pc = "pubdata"
    /\ \E fits \in BOOLEAN :
        LET q == After([requests[r] EXCEPT !.trace = Append(@, "pubdata")], "pubdata")
        IN  Step(r, IF ~fits THEN return_with(q, TxResult("Unexecutable", 0, 0, 0))
                    ELSE [q EXCEPT !.lower_bound = 0,
                                   !.upper_bound = MAX_L2_TX_GAS_LIMIT,
                                   !.pc = IF search_continues(0, MAX_L2_TX_GAS_LIMIT)
                                          THEN "search" ELSE "final"])
    /\ UNCHANGED <<proxy_cache, mempool, setup>>
    /\ UNCHANGED <<updater_vars, nonce_vars, validate_vars, pure_vars>>

\* Every step of the search takes a permit of its own and gives it back.
EstimateSearchStep_OwnPermit(r) ==
    /\ requests[r].op = "estimate_fee" /\ requests[r].pc = "search"
    /\ \E failed \in BOOLEAN :
        LET q == requests[r]
            mid == (q.lower_bound + q.upper_bound) \div 2
            lower == IF failed THEN mid + 1 ELSE q.lower_bound
            upper == IF failed THEN q.upper_bound ELSE mid
        IN  Step(r, [q EXCEPT !.lower_bound = lower, !.upper_bound = upper,
                              !.slots = 0,
                              !.trace = @ \o <<"acquire", "search_step">>,
                              !.pc = IF search_continues(lower, upper)
                                     THEN "search" ELSE "final"])
    /\ UNCHANGED <<proxy_cache, mempool, setup>>
    /\ UNCHANGED <<updater_vars, nonce_vars, validate_vars, pure_vars>>

\* One iteration of the binary search: estimate_gas_step at mid on a clone of
\* the permit, then the bound the result moves.
EstimateSearchStep(r) ==
    /\ requests[r].op = "estimate_fee" /\ requests[r].pc = "search"
    /\ \E failed \in BOOLEAN :
        LET q == requests[r]
            mid == (q.lower_bound + q.upper_bound) \div 2
            lower == IF failed THEN mid + 1 ELSE q.lower_bound
            upper == IF failed THEN q.upper_bound ELSE mid
        IN  Step(r, After([q EXCEPT !.lower_bound = lower, !.upper_bound = upper,
                                    !.trace = Append(@, "search_step"),
                                    !.pc = IF search_continues(lower, upper)
                                           THEN "search" ELSE "final"],
                          "search"))
    /\ UNCHANGED <<proxy_cache, mempool, setup>>
    /\ UNCHANGED <<updater_vars, nonce_vars, validate_vars, pure_vars>>

\* The confirming estimate_gas_step, which takes the permit, and what follows
\* it: the VM result, ensure_tx_executable, the overflowing_add of the total.
EstimateFinal(r) ==
    /\ requests[r].op = "estimate_fee" /\ requests[r].pc = "final"
    /\ \E outcome \in {"Fee", "ExecutionReverted", "Unexecutable"} :
        Step(r, return_with(After([requests[r] EXCEPT
                                        !.trace = Append(@, "final_step")], "final"),
                            TxResult(outcome, 0, 0, 0)))
    /\ UNCHANGED <<proxy_cache, mempool, setup>>
    /\ UNCHANGED <<updater_vars, nonce_vars, validate_vars, pure_vars>>

\* eth_call starts at the permit.
CallAcquire(r) ==
    /\ requests[r].op = "eth_call" /\ requests[r].pc = "start"
    /\ limiter_acquire(limiter) # "Pending"
    /\ Step(r, acquire_permit(requests[r], limiter, "call"))
    /\ UNCHANGED <<proxy_cache, mempool, setup>>
    /\ UNCHANGED <<updater_vars, nonce_vars, validate_vars, pure_vars>>

\* execute_tx_eth_call, which takes the permit, and into_api_call_result
CallExecute(r) ==
    /\ requests[r].op = "eth_call" /\ requests[r].pc = "call"
    /\ \E outcome \in {"Output", "ExecutionReverted"} :
        Step(r, return_with(After([requests[r] EXCEPT !.trace = Append(@, "call")],
                                  "call"),
                            TxResult(outcome, 0, 0, 0)))
    /\ UNCHANGED <<proxy_cache, mempool, setup>>
    /\ UNCHANGED <<updater_vars, nonce_vars, validate_vars, pure_vars>>

\* The process shuts down: the limiter is closed. Permits given out stay
\* valid until they are dropped.
CloseLimiter ==
    /\ requests # <<>> /\ ~limiter.closed
    /\ limiter' = [limiter EXCEPT !.closed = TRUE]
    /\ UNCHANGED <<requests, proxy_cache, mempool, setup>>
    /\ UNCHANGED <<updater_vars, nonce_vars, validate_vars, pure_vars>>

NextApi ==
    \/ \E r \in Requests : SubmitValidate(r)
    \/ \E r \in Requests : SubmitAcquire(r)
    \/ \E r \in Requests : SubmitDryRun(r)
    \/ \E r \in Requests : SubmitVerify(r)
    \/ \E r \in Requests : ProxySave(r)
    \/ \E r \in Requests : ProxySubmit(r)
    \/ \E r \in Requests : ProxyForget(r)
    \/ \E r \in Requests : Insert(r)
    \/ \E r \in Requests : EstimatePrepare(r)
    \/ \E r \in Requests : EstimateAcquire(r)
    \/ \E r \in Requests : EstimatePubdata(r)
    \/ \E r \in Requests : EstimateSearchStep(r)
    \/ \E r \in Requests : EstimateFinal(r)
    \/ \E r \in Requests : CallAcquire(r)
    \/ \E r \in Requests : CallExecute(r)
    \/ CloseLimiter

SpecApi == InitApi /\ [][NextApi]_vars

\* ------------------------------ TxSender: one fee estimation, step by step
\* get_txs_fee_in_wei on inputs drawn from the whole (scaled) u32 range, with
\* every u32 operation evaluated as the build evaluates it.

TxKinds == {"L1", "L2", "ProtocolUpgrade"}

\* Transaction::is_l1
is_l1(kind) == kind = "L1"

\* MAX_PUBDATA_PER_BLOCK, scaled to the model
MAX_PUBDATA_PER_BLOCK == 2

\* `x as u32` of a u64
as_u32(x) == x % U32

\* u32 `*`, like u32_add
u32_mul(a, b, checks) ==
    IF a * b < U32 THEN [panic |-> FALSE, value |-> a * b]
    ELSE IF checks THEN [panic |-> TRUE, value |-> 0]
    ELSE [panic |-> FALSE, value |-> (a * b) % U32]

\* derive_overhead: some function of the gas limit (the other arguments are
\* the same in every call of one estimation), given by two parameters.
derive_overhead(o, gas_limit) == Min(U32 - 1, o.base + o.per_gas * (gas_limit \div 2))

\* ((upper_bound as f64) * estimated_fee_scale_factor) as u32, the factor
\* given in halves: the product is cut to an integer and saturates.
scale_as_u32(upper_bound, halves) == Min(U32 - 1, (upper_bound * halves) \div 2)

\* if !tx.is_l1() && account_code_hash == H256::zero()
\*    && tx.execute.value > self.get_balance(..)
transfer_check_fails(kind, has_code, value, balance) ==
    ~is_l1(kind) /\ ~has_code /\ value > balance

\* The loop counts acceptable_overestimation twice.
search_guard_DoubleSlack(lower_bound, acceptable_overestimation, upper_bound, checks) ==
    LET sum == u32_add(lower_bound, Min(U32 - 1, 2 * acceptable_overestimation), checks)
    IN  IF sum.panic THEN "panic"
        ELSE IF sum.value < upper_bound THEN "continue" ELSE "exit"

\* while lower_bound + acceptable_overestimation < upper_bound
search_guard(lower_bound, acceptable_overestimation, upper_bound, checks) ==
    LET sum == u32_add(lower_bound, acceptable_overestimation, checks)
    IN  IF sum.panic THEN "panic"
        ELSE IF sum.value < upper_bound THEN "continue" ELSE "exit"

\* A failed step moves lower_bound to mid instead of mid + 1.
search_bounds_LowerAtMid(lower_bound, upper_bound, failed) ==
    LET mid == (lower_bound + upper_bound) \div 2
    IN  IF failed THEN [lower_bound |-> mid, upper_bound |-> upper_bound]
        ELSE [lower_bound |-> lower_bound, upper_bound |-> mid]

\* let mid = (lower_bound + upper_bound) / 2; then
\* if result.result.is_failed() { lower_bound = mid + 1 } else { upper_bound = mid }
search_bounds(lower_bound, upper_bound, failed) ==
    LET mid == (lower_bound + upper_bound) \div 2
    IN  IF failed THEN [lower_bound |-> mid + 1, upper_bound |-> upper_bound]
        ELSE [lower_bound |-> lower_bound, upper_bound |-> mid]

\* estimate_gas_step up to the sandbox: gas_limit_with_overhead, the gas limit
\* the tx is executed with.
gas_limit_with_overhead(o, tx_gas_limit, checks) ==
    u32_add(tx_gas_limit, derive_overhead(o, tx_gas_limit), checks)

\* The overhead of the Fee is derived from the body gas limit alone.
full_gas_limit_OverheadOfBody(o, tx_body_gas_limit, gas_for_bytecodes_pubdata, suggested, checks) ==
    LET overhead == derive_overhead(o, tx_body_gas_limit)
        inner == u32_add(gas_for_bytecodes_pubdata, overhead, checks)
        total == tx_body_gas_limit + inner.value
    IN  [panic |-> inner.panic, overflow |-> total >= U32, value |-> total % U32,
         wrapped |-> ~inner.panic /\ inner.value # gas_for_bytecodes_pubdata + overhead]

\* tx_body_gas_limit.overflowing_add(gas_for_bytecodes_pubdata + overhead)
full_gas_limit(o, tx_body_gas_limit, gas_for_bytecodes_pubdata, suggested, checks) ==
    LET overhead == derive_overhead(o, suggested)
        inner == u32_add(gas_for_bytecodes_pubdata, overhead, checks)
        total == tx_body_gas_limit + inner.value
    IN  [panic |-> inner.panic, overflow |-> total >= U32, value |-> total % U32,
         wrapped |-> ~inner.panic /\ inner.value # gas_for_bytecodes_pubdata + overhead]

\* The sandbox of one estimation: threshold -1 is a sandbox whose outcomes
\* are arbitrary, a threshold T >= 0 one that fails exactly below a body gas
\* limit of T.
step_outcomes(threshold, body_gas_limit) ==
    IF threshold < 0 THEN BOOLEAN ELSE {body_gas_limit < threshold}

EstimateInputs ==
    [kind : TxKinds, has_code : BOOLEAN, value : {0, 1}, balance : {0},
     acceptable_overestimation : {0, 1, 2, U32 - 1},
     scale : {1, 2, 3},
     threshold : -1 .. MAX_L2_TX_GAS_LIMIT,
     pubdata : 0 .. MAX_PUBDATA_PER_BLOCK + 1,
     gas_per_pubdata_byte : {1, U32 - 1, U32 + 1},
     overhead : {[base |-> 0, per_gas |-> 0], [base |-> 1, per_gas |-> 0],
                 [base |-> U32 - 1, per_gas |-> 0], [base |-> 0, per_gas |-> 1]},
     checks : BOOLEAN]

\* number_of_iterations is counted up to this value.
IterationsCap == U32Bits + 1

\* `first` names the first u32 operation that wrapped or panicked.
NewEstimate(in) ==
    [pc |-> "prepare", in |-> in, acquired |-> FALSE,
     gas_for_bytecodes_pubdata |-> 0, lower_bound |-> 0, upper_bound |-> 0,
     iterations |-> 0, tx_body_gas_limit |-> 0, confirm_steps |-> 0,
     final_gas_limit |-> 0, final_failed |-> FALSE, sealable |-> FALSE,
     first |-> "none", result |-> "none", gas_limit |-> 0]

estimate_return(e, result) == [e EXCEPT !.pc = "done", !.result = result]

\* Notes on e that the u32 operation `name` gave r: a panic ends the call.
noted(e, name, r, exact) ==
    IF e.first # "none" \/ (~r.panic /\ r.value = exact) THEN e
    ELSE [e EXCEPT !.first = name]

InitEstimate ==
    /\ UpdaterIdle /\ NonceIdle /\ ValidateIdle /\ ApiIdle
    /\ contracts = NoContracts /\ fees = NoFees
    /\ \E in \in EstimateInputs : est = NewEstimate(in)

EstimateIdleRest ==
    UNCHANGED <<updater_vars, nonce_vars, validate_vars, api_vars, contracts, fees>>

\* get_txs_fee_in_wei up to the permit: the early transfer check
EstPrepare ==
    /\ est.pc = "prepare"
    /\ est' = IF transfer_check_fails(est.in.kind, est.in.has_code,
                                      est.in.value, est.in.balance)
              THEN estimate_return(est, "InsufficientFundsForTransfer")
              ELSE [est EXCEPT !.pc = "acquire"]
    /\ EstimateIdleRest

\* The permit, gas_for_bytecodes_pubdata and the bounds the search starts from
EstAcquire ==
    /\ est.pc = "acquire"
    /\ \E closed \in BOOLEAN :
        LET e == [est EXCEPT !.acquired = TRUE, !.lower_bound = 0,
                             !.upper_bound = MAX_L2_TX_GAS_LIMIT, !.pc = "search"]
            product == u32_mul(est.in.pubdata, as_u32(est.in.gas_per_pubdata_byte),
                               est.in.checks)
            exact == est.in.pubdata * as_u32(est.in.gas_per_pubdata_byte)
        IN  est' = IF closed THEN estimate_return(est, "ServerShuttingDown")
                   ELSE IF is_l1(est.in.kind) THEN e
                   ELSE IF est.in.pubdata > MAX_PUBDATA_PER_BLOCK
                   THEN estimate_return([est EXCEPT !.acquired = TRUE], "Unexecutable")
                   ELSE IF product.panic
                   THEN estimate_return(noted([est EXCEPT !.acquired = TRUE],
                                              "pubdata_mul", product, exact), "panic")
                   ELSE noted([e EXCEPT !.gas_for_bytecodes_pubdata = product.value],
                              "pubdata_mul", product, exact)
    /\ EstimateIdleRest

\* One iteration of the binary search
EstSearchStep ==
    /\ est.pc = "search"
    /\ search_guard(est.lower_bound, est.in.acceptable_overestimation,
                    est.upper_bound, est.in.checks) = "continue"
    /\ LET mid == (est.lower_bound + est.upper_bound) \div 2
           try_gas_limit == u32_add(est.gas_for_bytecodes_pubdata, mid, est.in.checks)
           with_overhead == gas_limit_with_overhead(est.in.overhead, try_gas_limit.value,
                                                    est.in.checks)
           e1 == noted(est, "try_gas_limit", try_gas_limit,
                       est.gas_for_bytecodes_pubdata + mid)
           e2 == noted(e1, "step", with_overhead,
                       try_gas_limit.value
                       + derive_overhead(est.in.overhead, try_gas_limit.value))
       IN  \E failed \in step_outcomes(est.in.threshold, mid) :
            LET b == search_bounds(est.lower_bound, est.upper_bound, failed)
            IN  est' = IF try_gas_limit.panic THEN estimate_return(e1, "panic")
                       ELSE IF with_overhead.panic THEN estimate_return(e2, "panic")
                       ELSE [e2 EXCEPT !.lower_bound = b.lower_bound,
                                       !.upper_bound = b.upper_bound,
                                       !.iterations = Min(@ + 1, IterationsCap)]
    /\ EstimateIdleRest

\* The loop is left: tx_body_gas_limit
EstSearchExit ==
    /\ est.pc = "search"
    /\ LET g == search_guard(est.lower_bound, est.in.acceptable_overestimation,
                             est.upper_bound, est.in.checks)
       IN  /\ g # "continue"
           /\ est' = IF g = "panic"
                     THEN estimate_return([est EXCEPT !.first = "guard"], "panic")
                     ELSE [est EXCEPT !.pc = "final",
                                      !.tx_body_gas_limit =
                                          Min(MAX_L2_TX_GAS_LIMIT,
                                              scale_as_u32(est.upper_bound, est.in.scale))]
    /\ EstimateIdleRest

\* the seal predicate is asked before the result of the step is looked at
final_checks_SealFirst(failed, seal_accepts) ==
    IF ~seal_accepts THEN "Unexecutable"
    ELSE IF failed THEN "ExecutionReverted"
    ELSE "Ok"

\* `result.into_api_call_result()?` and then `self.ensure_tx_executable(..)?`
\* on the result of the confirming step: the error returned, or "Ok".
final_checks(failed, seal_accepts) ==
    IF failed THEN "ExecutionReverted"
    ELSE IF ~seal_accepts THEN "Unexecutable"
    ELSE "Ok"

\* The confirming step at suggested_gas_limit, into_api_call_result,
\* ensure_tx_executable, and the gas limit of the Fee
EstFinal ==
    /\ est.pc = "final"
    /\ LET gfb == est.gas_for_bytecodes_pubdata
           suggested == u32_add(est.tx_body_gas_limit, gfb, est.in.checks)
           with_overhead == gas_limit_with_overhead(est.in.overhead, suggested.value,
                                                    est.in.checks)
           full == full_gas_limit(est.in.overhead, est.tx_body_gas_limit, gfb,
                                  suggested.value, est.in.checks)
           e1 == noted(est, "suggested_gas_limit", suggested, est.tx_body_gas_limit + gfb)
           e2 == noted(e1, "step", with_overhead,
                       suggested.value + derive_overhead(est.in.overhead, suggested.value))
       IN  \E failed \in step_outcomes(est.in.threshold, est.tx_body_gas_limit),
              sealable \in BOOLEAN :
            LET e3 == [e2 EXCEPT !.confirm_steps = @ + 1,
                                 !.final_gas_limit = with_overhead.value,
                                 !.final_failed = failed,
                                 !.sealable = ~failed /\ sealable]
                e4 == IF e3.first = "none" /\ (full.panic \/ full.wrapped)
                      THEN [e3 EXCEPT !.first = "bytecodes_and_overhead"] ELSE e3
            IN  est' = IF suggested.panic THEN estimate_return(e1, "panic")
                       ELSE IF with_overhead.panic THEN estimate_return(e2, "panic")
                       ELSE IF final_checks(failed, sealable) # "Ok"
                       THEN estimate_return(e3, final_checks(failed, sealable))
                       ELSE IF full.panic THEN estimate_return(e4, "panic")
                       ELSE IF full.overflow
                       THEN estimate_return(e4, "ExceedsBlockGasLimit")
                       ELSE estimate_return([e4 EXCEPT !.gas_limit = full.value], "Fee")
    /\ EstimateIdleRest

NextEstimate == EstPrepare \/ EstAcquire \/ EstSearchStep \/ EstSearchExit \/ EstFinal

SpecEstimate == InitEstimate /\ [][NextEstimate]_vars

\* The scheduler runs the estimation's task: every step that can be taken is
\* taken.
SpecEstimateFair == SpecEstimate /\ WF_vars(NextEstimate)

\* ---------------------- system contracts by protocol version (mod.rs 46-125)

\* ProtocolVersionId::Version0 .. Version20, by ordinal
ProtocolVersionId == 0 .. 20

\* the two suites of ApiContracts
Suites == {"estimate_gas", "eth_call"}

\* the fields of MultiVMBaseSystemContracts
Partitions == {"pre_virtual_blocks", "post_virtual_blocks",
               "post_virtual_blocks_finish_upgrade_fix", "post_boojum",
               "post_allowlist_removal"}

\* ApiContracts::load_from_disk: each field of each suite holds its own
\* contracts, named by the loader that produced them
load_from_disk ==
    [suite \in Suites |->
        [p \in Partitions |->
            IF suite = "estimate_gas" THEN <<"estimate_gas", p>>
                                      ELSE <<"playground", p>>]]

\* Version13 is matched with the versions before it.
get_by_protocol_version_V13Pre(self, version) ==
    CASE version \in 0 .. 13 -> self["pre_virtual_blocks"]
      [] version \in 14 .. 17 -> self["post_virtual_blocks_finish_upgrade_fix"]
      [] version = 18 -> self["post_boojum"]
      [] version \in 19 .. 20 -> self["post_allowlist_removal"]

\* MultiVMBaseSystemContracts::get_by_protocol_version
get_by_protocol_version(self, version) ==
    CASE version \in 0 .. 12 -> self["pre_virtual_blocks"]
      [] version = 13 -> self["post_virtual_blocks"]
      [] version \in 14 .. 17 -> self["post_virtual_blocks_finish_upgrade_fix"]
      [] version = 18 -> self["post_boojum"]
      [] version \in 19 .. 20 -> self["post_allowlist_removal"]

InitContracts ==
    /\ UpdaterIdle /\ NonceIdle /\ ValidateIdle /\ ApiIdle /\ est = NoEstimate
    /\ fees = NoFees
    /\ \E suite \in Suites, version \in ProtocolVersionId :
           contracts = [pc |-> "new", suite |-> suite, version |-> version,
                        api_contracts |-> <<>>, selected |-> <<>>]

ContractsIdleRest ==
    UNCHANGED <<updater_vars, nonce_vars, validate_vars, api_vars, est, fees>>

\* ApiContracts::load_from_disk
LoadFromDisk ==
    /\ contracts.pc = "new"
    /\ contracts' = [contracts EXCEPT !.pc = "loaded",
                                      !.api_contracts = load_from_disk]
    /\ ContractsIdleRest

\* the suite of the request's purpose, then get_by_protocol_version
SelectContracts ==
    /\ contracts.pc = "loaded"
    /\ contracts' = [contracts EXCEPT
           !.pc = "selected",
           !.selected = get_by_protocol_version(
                            contracts.api_contracts[contracts.suite],
                            contracts.version)]
    /\ ContractsIdleRest

NextContracts == LoadFromDisk \/ SelectContracts

SpecContracts == InitContracts /\ [][NextContracts]_vars

\* ------------------------------- the updater against a consistent main node

\* The statuses the main node can be in: a batch is proven only if committed
\* and executed only if proven; each status holds of a prefix of the batches.
Upstreams ==
    {u \in [committed : 0..MaxBatch, proven : 0..MaxBatch, executed : 0..MaxBatch] :
        u.executed <= u.proven /\ u.proven <= u.committed}

\* The BlockDetails a consistent main node returns for `batch`: the number
\* asked for, the hash and the timestamp of each status the batch has reached.
ConsistentDetails(batch, u) ==
    {info \in BlockDetails :
        /\ info.l1_batch_number = batch
        /\ info.commit_tx_hash = (batch <= u.committed)
        /\ info.prove_tx_hash = (batch <= u.proven)
        /\ info.execute_tx_hash = (batch <= u.executed)
        /\ info.committed_at = info.commit_tx_hash
        /\ info.proven_at = info.prove_tx_hash
        /\ info.executed_at = info.execute_tx_hash}

InitConsistent == InitLocal /\ upstream \in Upstreams

\* block_details of a consistent main node
ProbeConsistent ==
    \E info \in ConsistentDetails(locals.batch, upstream) : ProbeDetailsWith(info)

\* One more batch is committed, proven or executed on the main node. Only
\* the probes of a scan read the main node, so the step is taken during scans.
UpstreamAdvance ==
    /\ pc = "scan"
    /\ \E u \in Upstreams :
        /\ u.committed + u.proven + u.executed
               = upstream.committed + upstream.proven + upstream.executed + 1
        /\ u.committed >= upstream.committed /\ u.proven >= upstream.proven
        /\ u.executed >= upstream.executed
        /\ upstream' = u
    /\ UNCHANGED <<pc, status_changes, locals, collect_result, last_sealed_batch, stop>>
    /\ UnchangedState /\ UnchangedHistory /\ UNCHANGED tx_sender_vars

\* The run loop while no stop signal is sent (the signal only ends the loop
\* at its head).
NextConsistent ==
    \/ BeginCycle \/ ScanExit
    \/ ProbeRpcError \/ ProbeNotSealedUpstream \/ ProbeConsistent
    \/ RunMatch \/ Sleep \/ Apply
    \/ SealBatch \/ UpstreamAdvance

SpecConsistent == InitConsistent /\ [][NextConsistent]_vars

\* --------------------------------- the run loop, one undisturbed cycle
\* One more batch is committed, proven or executed on the main node while
\* the updater is between two cycles.
UpstreamAdvanceBetweenCycles ==
    /\ pc = "loop"
    /\ \E u \in Upstreams :
        /\ u.committed + u.proven + u.executed
               = upstream.committed + upstream.proven + upstream.executed + 1
        /\ u.committed >= upstream.committed /\ u.proven >= upstream.proven
        /\ u.executed >= upstream.executed
        /\ upstream' = u
    /\ UNCHANGED <<pc, status_changes, locals, collect_result, last_sealed_batch, stop>>
    /\ UnchangedState /\ UnchangedHistory /\ UNCHANGED tx_sender_vars

\* The run loop against a consistent main node that answers every request
\* and knows every batch the node has sealed; its statuses change between
\* the cycles only.
NextUndisturbed ==
    \/ BeginCycle \/ ScanExit \/ ProbeConsistent
    \/ RunMatch \/ Sleep \/ Apply
    \/ SealBatch \/ UpstreamAdvanceBetweenCycles

SpecUndisturbed == InitConsistent /\ [][NextUndisturbed]_vars

\* ------------------------------------------- the run loop, polled fairly
\* A step of the updater's task up to the call of apply_status_changes.
UpdaterPoll ==
    \/ BeginCycle \/ ScanExit
    \/ ProbeRpcError \/ ProbeNotSealedUpstream \/ ProbeConsistent
    \/ RunMatch \/ Sleep

\* The runtime polls the task as long as it has not returned, and every await
\* of run completes: the sleep ends, the main node answers or the request
\* fails, and apply_status_changes returns (run is not at it for ever).
SpecConsistentFair ==
    SpecConsistent /\ WF_vars(UpdaterPoll) /\ []<>(pc # "apply")

\* -------------------------------------------------- gas_price, base fee
\* gas_price_scale_factor, an f64, as a fraction
ScaleFactors == {[num |-> 1, den |-> 1], [num |-> 3, den |-> 2], [num |-> 5, den |-> 4]}

\* `x as u64` of a non-negative f64 that is a whole number: saturating
f64_as_u64(x) == Min(x, U64 - 1)

\* `((effective_gas_price as f64) * gas_price_scale_factor) as u64`: the cast
\* drops the fraction
scale_truncated(price, scale) == f64_as_u64((price * scale.num) \div scale.den)

\* `(gas_price as f64 * gas_price_scale_factor).round()` and `as u64`: round
\* takes a fraction of one half or more to the next whole number
scale_rounded(price, scale) ==
    f64_as_u64((2 * price * scale.num + scale.den) \div (2 * scale.den))

\* ProtocolVersionId::last_pre_boojum()
last_pre_boojum == 17

\* get_miniblock_protocol_version_id(..).unwrap_or(last_pre_boojum()); -1 is None
protocol_version(stored) == IF stored = -1 THEN last_pre_boojum ELSE stored

\* Gas an L1 pubdata byte costs and the highest gas per pubdata byte a block
\* asks for (20000 in the program, scaled with the model's u64).
L1_GAS_PER_PUBDATA_BYTE == 17

MAX_GAS_PER_PUBDATA_BYTE == 20

ceil_div(a, b) == (a + b - 1) \div b

\* derive_base_fee_and_gas_per_pubdata: the base fee is fair_l2_gas_price or,
\* if higher, the price that lets a transaction pay for its pubdata within
\* MAX_GAS_PER_PUBDATA_BYTE gas per byte.
derive_base_fee_and_gas_per_pubdata(l1_gas_price, fair_l2_gas_price, version) ==
    LET base_fee == Max(fair_l2_gas_price,
                        ceil_div(l1_gas_price * L1_GAS_PER_PUBDATA_BYTE,
                                 MAX_GAS_PER_PUBDATA_BYTE))
    IN  [base_fee |-> base_fee,
         gas_per_pubdata_byte |->
             ceil_div(l1_gas_price * L1_GAS_PER_PUBDATA_BYTE, base_fee)]

\* adjust_l1_gas_price_for_tx: the L1 gas price, lowered as far as needed for
\* the block's gas per pubdata byte not to exceed the limit of the tx.
adjust_l1_gas_price_for_tx(l1_gas_price, fair_l2_gas_price, limit, version) ==
    LET fits(l) == derive_base_fee_and_gas_per_pubdata(l, fair_l2_gas_price, version)
                       .gas_per_pubdata_byte <= limit
    IN  IF fits(l1_gas_price) THEN l1_gas_price
        ELSE CHOOSE l \in 0..l1_gas_price :
                 /\ fits(l)
                 /\ \A k \in (l + 1)..l1_gas_price : ~fits(k)

\* the base fee gas_price returns
gas_price(effective_gas_price, config, stored_version) ==
    LET l1_gas_price == scale_rounded(effective_gas_price, config.gas_price_scale_factor)
    IN  [l1_gas_price |-> l1_gas_price,
         base_fee |-> derive_base_fee_and_gas_per_pubdata(
                          l1_gas_price, config.fair_l2_gas_price,
                          protocol_version(stored_version)).base_fee]

\* the base fee get_txs_fee_in_wei works with and returns as max_fee_per_gas
estimate_base_fee(effective_gas_price, config, stored_version, gas_per_pubdata_limit) ==
    LET current_l1_gas_price ==
            scale_truncated(effective_gas_price, config.gas_price_scale_factor)
        l1_gas_price ==
            adjust_l1_gas_price_for_tx(current_l1_gas_price, config.fair_l2_gas_price,
                                       gas_per_pubdata_limit,
                                       protocol_version(stored_version))
    IN  [l1_gas_price |-> l1_gas_price,
         base_fee |-> derive_base_fee_and_gas_per_pubdata(
                          l1_gas_price, config.fair_l2_gas_price,
                          protocol_version(stored_version)).base_fee]

\* The oracle's price, the configuration, the protocol version of the pending
\* block in the storage and the gas_per_pubdata_limit of the estimated tx.
GasPriceInputs ==
    [effective_gas_price : 0..(U64 - 1),
     config : [gas_price_scale_factor : ScaleFactors, fair_l2_gas_price : 1..3],
     stored_version : {-1, 17, 18},
     gas_per_pubdata_limit : {1, MAX_GAS_PER_PUBDATA_BYTE}]

NoFee == [l1_gas_price |-> -1, base_fee |-> -1]

InitGasPrice ==
    /\ UpdaterIdle /\ NonceIdle /\ ValidateIdle /\ ApiIdle
    /\ est = NoEstimate /\ contracts = NoContracts
    /\ \E in \in GasPriceInputs :
           fees = [pc |-> "called", in |-> in, gas_price |-> NoFee, estimate |-> NoFee]

GasPriceIdleRest ==
    UNCHANGED <<updater_vars, nonce_vars, validate_vars, api_vars, est, contracts>>

\* TxSender::gas_price
GasPrice ==
    /\ fees.pc = "called" /\ fees.gas_price = NoFee
    /\ fees' = [fees EXCEPT !.gas_price =
                    gas_price(fees.in.effective_gas_price, fees.in.config,
                              fees.in.stored_version)]
    /\ GasPriceIdleRest

\* get_txs_fee_in_wei up to the base fee
EstimateBaseFee ==
    /\ fees.pc = "called" /\ fees.estimate = NoFee
    /\ fees' = [fees EXCEPT !.estimate =
                    estimate_base_fee(fees.in.effective_gas_price, fees.in.config,
                                      fees.in.stored_version,
                                      fees.in.gas_per_pubdata_limit)]
    /\ GasPriceIdleRest

NextGasPrice == GasPrice \/ EstimateBaseFee

SpecGasPrice == InitGasPrice /\ [][NextGasPrice]_vars

\* =============================================================== claims
Contiguous(seq, last) == \A i \in 1..Len(seq) : seq[i] = last + i

Range(seq) == {seq[i] : i \in 1..Len(seq)}

ApplyDone == pc = "loop" /\ Snapshot # cycle_start

\* C1: in every reachable state of the updater, for any answers of the main
\* node, last_executed <= last_proven <= last_committed <= newest locally
\* sealed batch.
C1_CountersOrdered ==
    /\ last_executed_l1_batch <= last_proven_l1_batch
    /\ last_proven_l1_batch <= last_committed_l1_batch
    /\ last_committed_l1_batch <= last_sealed_batch

\* an apply has advanced all three counters, the committed one up to the
\* newest sealed batch
C1_Witness ==
    /\ ApplyDone
    /\ last_committed_l1_batch = last_sealed_batch
    /\ cycle_start.committed < last_committed_l1_batch
    /\ cycle_start.proven < last_proven_l1_batch
    /\ cycle_start.executed < last_executed_l1_batch

\* C2: each of the three sequences collected in one cycle is contiguous and
\* ascending from the updater's counter + 1, wherever the scan stopped.
C2_ChangesContiguous ==
    pc \in {"scan", "collected", "apply"} =>
        /\ Contiguous(status_changes.commit, last_committed_l1_batch)
        /\ Contiguous(status_changes.prove, last_proven_l1_batch)
        /\ Contiguous(status_changes.execute, last_executed_l1_batch)

\* a scan cut short by an RPC error after it collected two commits and a prove
C2_Witness ==
    /\ pc = "collected" /\ collect_result = "web3"
    /\ Len(status_changes.commit) >= 2
    /\ Len(status_changes.prove) >= 1

\* C3: as long as no apply has failed, the confirmed rows of each action are
\* exactly 1..last_X, each batch once.
C3_NoGap ==
    pc # "failed" =>
        /\ eth_txs.commit = Rows(last_committed_l1_batch)
        /\ eth_txs.prove = Rows(last_proven_l1_batch)
        /\ eth_txs.execute = Rows(last_executed_l1_batch)

\* a successful apply has inserted rows of two actions
C3_Witness ==
    /\ ApplyDone
    /\ Len(eth_txs.prove) > Len(cycle_start.eth_txs.prove)
    /\ Len(eth_txs.execute) > Len(cycle_start.eth_txs.execute)

\* C4 as stated: a cycle whose collection ended with an RPC error leaves the
\* counters and the stored rows as they were at its start and does not halt.
C4_RpcErrorKeepsState ==
    collect_result = "web3" => (Snapshot = cycle_start /\ pc # "failed")

\* C4 amended: after a collection that ended with an RPC error, run does not
\* return the error; with nothing collected it sleeps, leaves counters and
\* rows unchanged and goes on to the next cycle; with something collected it
\* applies what was collected.
C4_RpcErrorAppliesCollected ==
    [][collect_result = "web3" /\ pc' # pc =>
        /\ pc = "collected" =>
              /\ pc' = IF is_empty(status_changes) THEN "sleep" ELSE "apply"
              /\ Snapshot' = cycle_start
        /\ pc = "sleep" => (pc' = "loop" /\ Snapshot' = cycle_start)
        /\ pc' = "failed" => pc = "apply"]_vars

\* the changes collected before an RPC error have been applied
C4_Witness ==
    /\ collect_result = "web3"
    /\ ApplyDone
    /\ eth_txs # cycle_start.eth_txs

\* C5: after block_details = None for a resolved miniblock, or a tx hash for
\* batch last_X + 1 without its timestamp, the collection returns an internal
\* error, run returns it, and counters and rows are those of the cycle start.
C5_InconsistencyFatal ==
    /\ [](inconsistency_seen =>
            /\ collect_result = "internal"
            /\ pc \in {"collected", "failed"}
            /\ Snapshot = cycle_start)
    /\ [][inconsistency_seen /\ pc = "collected" /\ pc' # pc => pc' = "failed"]_vars

\* run has returned the error with changes collected in the cycle
C5_Witness ==
    /\ pc = "failed" /\ inconsistency_seen
    /\ status_changes.commit # <<>>

\* C6: an apply either persists every change of the cycle and succeeds, or
\* fails and persists none.
C6_ApplyAtomic ==
    [][pc = "apply" /\ pc' # pc =>
        \/ /\ pc' = "loop"
           /\ \A a \in {"commit", "prove", "execute"} :
                  eth_txs'[a] = eth_txs[a] \o status_changes[a]
        \/ /\ pc' = "failed"
           /\ eth_txs' = eth_txs]_vars

\* an apply has failed after it went through some of the changes
C6_Witness ==
    /\ pc = "failed" /\ collect_result # "internal"
    /\ last_committed_l1_batch > cycle_start.committed
    /\ eth_txs = cycle_start.eth_txs

\* The skip-ahead scenario for batch n: the cycle started with last_proven =
\* n - 1 and last_committed > n, and the main node answered the probe of n
\* with a commit hash and no prove hash.
SkipScenario(n) ==
    /\ cycle_start.proven = n - 1
    /\ cycle_start.committed > n
    /\ n \in unproven_seen

\* C7 as stated: in the scenario, the cycle emits commit changes for
\* n..last_committed and does not probe n+1..last_committed.
C7_SkipEmitsCommits ==
    \A n \in 1..MaxBatch :
        (SkipScenario(n) /\ pc = "collected") =>
            /\ (n..cycle_start.committed) \subseteq Range(status_changes.commit)
            /\ probed \cap ((n + 1)..cycle_start.committed) = {}

\* C7 amended: in the scenario, the cycle does not probe n+1..last_committed
\* and emits no commit change for n..last_committed (they are committed
\* already; the commit changes it emits are for batches above last_committed).
C7_SkipNoProbe ==
    \A n \in 1..MaxBatch :
        (SkipScenario(n) /\ pc \in {"scan", "collected", "apply"}) =>
            /\ \A b \in Range(status_changes.commit) : b > cycle_start.committed
            /\ probed \cap ((n + 1)..cycle_start.committed) = {}

\* the scan jumped from n over the committed batches and collected a commit
\* for the batch after them
C7_Witness ==
    \E n \in 1..MaxBatch :
        /\ SkipScenario(n) /\ pc = "collected"
        /\ (cycle_start.committed + 1) \in probed
        /\ status_changes.commit # <<>>

\* C8: run returns Ok only at the head of the loop with the stop signal set,
\* and with the signal set the head of the loop starts no new cycle.
C8_StopAtLoopHead ==
    [][pc' # pc =>
        /\ (pc = "loop" /\ stop) => pc' = "stopped"
        /\ pc' = "stopped" => (pc = "loop" /\ stop)]_vars

\* the signal came during a scan; the cycle went on to a successful apply
\* and run stopped after it
C8_Witness ==
    /\ pc = "stopped" /\ stop_at = "scan"
    /\ Snapshot # cycle_start
    /\ eth_txs # cycle_start.eth_txs

\* C9: no step decreases last_committed, last_proven or last_executed.
C9_CountersMonotone ==
    [][/\ last_committed_l1_batch' >= last_committed_l1_batch
       /\ last_proven_l1_batch' >= last_proven_l1_batch
       /\ last_executed_l1_batch' >= last_executed_l1_batch]_vars

\* an apply advanced the executed counter by two
C9_Witness ==
    /\ ApplyDone
    /\ last_executed_l1_batch >= cycle_start.executed + 2

\* C10: the nonce check accepts iff expected <= nonce <= expected + ahead
\* (the sum of the integers), answers NonceIsTooLow iff nonce < expected, and
\* otherwise NonceIsTooHigh(expected, expected + ahead, nonce).
C10_NonceWindow ==
    nonce_result # NoResult =>
        LET hi == expected_nonce + max_nonce_ahead IN
        /\ nonce_result.kind = "Ok" <=> (expected_nonce <= tx_nonce /\ tx_nonce <= hi)
        /\ nonce_result.kind = "NonceIsTooLow" <=> tx_nonce < expected_nonce
        /\ nonce_result.kind \notin {"Ok", "NonceIsTooLow"} =>
               nonce_result = NonceResult("NonceIsTooHigh", expected_nonce, hi, tx_nonce)

\* The cost the balance has to cover: gas_limit * min(max_fee_per_gas,
\* fair_l2_gas_price + max_priority_fee_per_gas) + value, on the integers.
MaxCost(t, config) ==
    t.gas_limit * Min(t.max_fee_per_gas,
                      config.fair_l2_gas_price + t.max_priority_fee_per_gas) + t.value

\* C11: for a tx that passed the earlier checks, the balance check accepts a
\* tx with a paymaster, and without one answers NotEnoughBalanceForFeeValue
\* iff balance < gas_limit * min(max_fee, fair + priority) + value and Ok
\* otherwise; it has no third outcome.
C11_BalanceCheck ==
    validate_result # NoValidation =>
        IF tx.paymaster THEN validate_result.result = TxOk
        ELSE /\ validate_result.result.kind = "NotEnoughBalanceForFeeValue"
                    <=> account.balance < MaxCost(tx, sender_config)
             /\ validate_result.result = TxOk
                    <=> account.balance >= MaxCost(tx, sender_config)

StatelessErrors == {"GasLimitIsTooBig", "MaxFeePerGasTooLow",
                    "MaxPriorityFeeGreaterThanMaxFee", "TooManyFactoryDependencies",
                    "IntrinsicGas"}

GasLimitTooBig(t, config) ==
    \/ t.gas_limit > U32 - 1
    \/ t.gas_per_pubdata_limit > U32 - 1
    \/ t.gas_limit > config.max_allowed_l2_tx_gas_limit

StatelessAccepts(t, config) ==
    /\ t.gas_limit <= Min(U32 - 1, config.max_allowed_l2_tx_gas_limit)
    /\ t.gas_per_pubdata_limit <= U32 - 1
    /\ t.max_fee_per_gas >= config.fair_l2_gas_price
    /\ t.max_priority_fee_per_gas <= t.max_fee_per_gas
    /\ t.factory_deps_length <= MAX_NEW_FACTORY_DEPS
    /\ t.gas_limit >= L2_TX_INTRINSIC_GAS

\* C12: validation gets past its stateless checks iff the six conditions on
\* the fee fields and the factory deps hold, and it answers GasLimitIsTooBig
\* iff one of the three gas-limit conditions holds.
C12_StatelessChecks ==
    validate_result # NoValidation =>
        /\ validate_result.result.kind \notin StatelessErrors
               <=> StatelessAccepts(tx, sender_config)
        /\ validate_result.result.kind = "GasLimitIsTooBig"
               <=> GasLimitTooBig(tx, sender_config)

\* a tx rejected for its gas_per_pubdata_limit alone
C12_Witness ==
    /\ validate_result.result.kind = "GasLimitIsTooBig"
    /\ tx.gas_limit <= sender_config.max_allowed_l2_tx_gas_limit
    /\ tx.gas_per_pubdata_limit > U32 - 1
    /\ tx.max_fee_per_gas < sender_config.fair_l2_gas_price

\* The error of the earliest violated rule, in the order GasLimitIsTooBig,
\* MaxFeePerGasTooLow, MaxPriorityFeeGreaterThanMaxFee,
\* TooManyFactoryDependencies, IntrinsicGas, nonce, balance.
EarliestViolated(t, config, acc) ==
    IF GasLimitTooBig(t, config) THEN "GasLimitIsTooBig"
    ELSE IF t.max_fee_per_gas < config.fair_l2_gas_price THEN "MaxFeePerGasTooLow"
    ELSE IF t.max_priority_fee_per_gas > t.max_fee_per_gas
    THEN "MaxPriorityFeeGreaterThanMaxFee"
    ELSE IF t.factory_deps_length > MAX_NEW_FACTORY_DEPS THEN "TooManyFactoryDependencies"
    ELSE IF t.gas_limit < L2_TX_INTRINSIC_GAS THEN "IntrinsicGas"
    ELSE IF t.nonce < acc.nonce THEN "NonceIsTooLow"
    ELSE IF t.nonce > acc.nonce + config.max_nonce_ahead THEN "NonceIsTooHigh"
    ELSE IF ~t.paymaster /\ acc.balance < MaxCost(t, config)
    THEN "NotEnoughBalanceForFeeValue"
    ELSE "Ok"

\* C13: validation answers with the error of the earliest violated rule (Ok
\* if none is violated), and reads neither the nonce nor the balance when a
\* stateless rule is violated.
C13_FirstFailingCheck ==
    validate_result # NoValidation =>
        /\ validate_result.result.kind = EarliestViolated(tx, sender_config, account)
        /\ validate_result.result.kind \in StatelessErrors => validate_result.reads = <<>>

Has(s, e) == \E i \in DOMAIN s : s[i] = e

IsPrefix(p, s) == Len(p) <= Len(s) /\ \A i \in DOMAIN p : s[i] = p[i]

Count(s, e) == Cardinality({i \in DOMAIN s : s[i] = e})

\* The stages that gate the route of submit_tx, in their order.
GateStages == <<"validate_ok", "acquire", "dry_run", "sandbox_validate_ok",
                "bytecodes_ok", "seal_ok">>

IsGateStage(e) == e \in Range(GateStages)

RouteEvents == {"insert", "proxy_save", "proxy_submit", "proxy_forget"}

SandboxEvents == {"dry_run", "sandbox_validate_ok", "sandbox_validate_err",
                  "pubdata", "search_step", "final_step", "call"}

\* C14: within one submit_tx the gating stages happen in their order
\* (validate_tx ok, permit, dry-run, sandbox validation ok, bytecodes
\* published, seal accepted); a request that is on, or went through, the
\* insert or the proxy route passed all of them; and the seal predicate is
\* not consulted after a failed sandbox validation.
C14_StagesGateRoute ==
    \A r \in DOMAIN requests :
        LET q == requests[r] IN
        q.op = "submit_tx" =>
            /\ IsPrefix(SelectSeq(q.trace, IsGateStage), GateStages)
            /\ (q.pc \in {"insert", "proxy_save", "proxy_submit", "proxy_forget"}
                \/ \E e \in RouteEvents : Has(q.trace, e))
               => IsPrefix(GateStages, q.trace)
            /\ Has(q.trace, "sandbox_validate_err")
               => ~Has(q.trace, "seal_ok") /\ ~Has(q.trace, "seal_reject")

\* One submission was inserted and another failed its sandbox validation.
C14_Witness ==
    \E r1, r2 \in DOMAIN requests :
        /\ requests[r1].result.kind = "Added"
        /\ Has(requests[r1].trace, "insert")
        /\ requests[r2].result.kind = "ValidationFailed"

AtAcquire(q) == \/ q.op \in {"submit_tx", "estimate_fee"} /\ q.pc = "acquire"
                \/ q.op = "eth_call" /\ q.pc = "start"

\* C15: a request that reaches the permit acquisition while the limiter is
\* closed (submit_tx after validation, estimate_fee after the transfer check,
\* eth_call at once) returns ServerShuttingDown, and nothing of the sandbox,
\* the mempool insert or the proxy was done for it.
C15_ClosedLimiter ==
    [][\A r \in DOMAIN requests :
         (limiter.closed /\ AtAcquire(requests[r]) /\ requests'[r] # requests[r])
         => /\ requests'[r].pc = "done"
            /\ requests'[r].result.kind = "ServerShuttingDown"
            /\ requests'[r].slots = 0
            /\ \A i \in DOMAIN requests'[r].trace :
                   requests'[r].trace[i] \notin SandboxEvents \cup RouteEvents
            /\ mempool' = mempool /\ proxy_cache' = proxy_cache]_vars

\* A validated submission and an estimate were both turned away.
C15_Witness ==
    \E r1, r2 \in DOMAIN requests :
        /\ requests[r1].op = "submit_tx"
        /\ requests[r1].trace = <<"validate_ok", "acquire_none">>
        /\ requests[r1].result.kind = "ServerShuttingDown"
        /\ requests[r2].op \in {"estimate_fee", "eth_call"}
        /\ requests[r2].result.kind = "ServerShuttingDown"

SandboxPcs == {"dry_run", "verify", "pubdata", "search", "final", "call"}

RECURSIVE SlotsHeld(_)
SlotsHeld(S) == IF S = {} THEN 0
                ELSE LET r == CHOOSE x \in S : TRUE
                     IN  requests[r].slots + SlotsHeld(S \ {r})

\* C16: in every interleaving the slots given out and the free ones add up
\* to the capacity, a request holds at most one slot, a request inside a
\* sandbox step holds one (so at most capacity-many run one), and a finished
\* request holds none.
C16_PermitDiscipline ==
    requests # <<>> =>
        /\ limiter.free >= 0
        /\ limiter.free + SlotsHeld(DOMAIN requests) = VmPermits
        /\ Cardinality({r \in DOMAIN requests : requests[r].pc \in SandboxPcs})
               <= VmPermits
        /\ \A r \in DOMAIN requests :
            /\ requests[r].slots \in {0, 1}
            /\ requests[r].pc \in SandboxPcs => requests[r].slots = 1
            /\ requests[r].pc = "done" => requests[r].slots = 0

\* The pool is exhausted: one request is in the sandbox and another waits.
C16_Witness ==
    \E r1, r2 \in DOMAIN requests :
        /\ requests[r1].pc \in SandboxPcs
        /\ requests[r2].pc = "acquire"
        /\ limiter.free = 0 /\ ~limiter.closed

\* C17: estimate_fee acquires once; from the acquisition through every search
\* step until the confirming step has finished it holds that one slot.
C17_OnePermitForSearch ==
    \A r \in DOMAIN requests :
        LET q == requests[r] IN
        q.op = "estimate_fee" =>
            /\ Count(q.trace, "acquire") <= 1
            /\ q.pc \in {"pubdata", "search", "final"}
               => q.slots = 1 /\ Count(q.trace, "acquire") = 1
            /\ (Has(q.trace, "search_step") \/ Has(q.trace, "final_step"))
               => Count(q.trace, "acquire") = 1

\* An estimate is at its confirming step after two search steps.
C17_Witness ==
    \E r \in DOMAIN requests :
        /\ requests[r].op = "estimate_fee" /\ requests[r].pc = "final"
        /\ Count(requests[r].trace, "search_step") >= 2
        /\ requests[r].slots = 1

\* C18: once a submit_tx that took the proxy route has returned, the proxy
\* cache holds no entry that this call saved.
C18_CacheEvicted ==
    \A r \in DOMAIN requests :
        (requests[r].pc = "done" /\ Has(requests[r].trace, "proxy_save"))
        => \A h \in DOMAIN proxy_cache : proxy_cache[h] # r

\* C19: on the local route AlreadyExecuted becomes NonceIsTooLow (with the
\* nonce read back and the tx's nonce), Duplicate becomes the duplication
\* error with the tx hash, Added and Replaced are returned as they are.
C19_InsertTranslation ==
    \A r \in DOMAIN requests :
        LET q == requests[r]
            res == q.trace[Len(q.trace)]
        IN  Has(q.trace, "insert") =>
            /\ res = "AlreadyExecuted"
               => /\ q.result.kind = "NonceIsTooLow"
                  /\ q.result.expected \in ExpectedNonces
                  /\ q.result.given = q.nonce
            /\ res = "Duplicate"
               => q.result.kind = "TxDuplication" /\ q.result.expected = q.hash
            /\ res \in {"Added", "Replaced"} => q.result.kind = res
            /\ q.result.kind \in OkKinds => q.result.kind \in {"Added", "Replaced"}

Validate3 == <<"Validate", "DryRun", "VerifyExecute">>

\* C20 as stated: a submit_tx call that succeeds has observed the five
\* stages Validate, DryRun, VerifyExecute, TxProxy, DbInsert in this order.
C20_FiveStages ==
    \A r \in DOMAIN requests :
        (requests[r].op = "submit_tx" /\ requests[r].result.kind \in OkKinds)
        => requests[r].observed = Validate3 \o <<"TxProxy", "DbInsert">>

\* What a submit_tx call has observed, given how far it got.
StagesObserved(q) ==
    IF ~Has(q.trace, "validate_ok") THEN <<>>
    ELSE IF ~Has(q.trace, "dry_run") THEN <<"Validate">>
    ELSE IF q.pc = "verify" THEN <<"Validate", "DryRun">>
    ELSE IF q.result.kind = "Proxied" THEN Validate3 \o <<"TxProxy">>
    ELSE IF q.result.kind \in {"Added", "Replaced"} THEN Validate3 \o <<"DbInsert">>
    ELSE Validate3

\* C20 amended: the observations are a prefix of Validate, DryRun,
\* VerifyExecute followed by one route stage: TxProxy when the call returns
\* Ok(Proxied), DbInsert when it returns Ok(Added) or Ok(Replaced); a call
\* that fails has observed only the stages it completed, never a route stage.
C20_StagesObserved ==
    \A r \in DOMAIN requests :
        requests[r].op = "submit_tx"
        => requests[r].observed = StagesObserved(requests[r])

\* A proxied submission has observed four stages, TxProxy the last.
C20_Witness ==
    \E r \in DOMAIN requests :
        /\ requests[r].result.kind = "Proxied"
        /\ requests[r].observed = Validate3 \o <<"TxProxy">>

\* The estimation ran its search to the end against a monotone sandbox.
SearchEnded == est.pc \in {"final", "done"} /\ est.acquired
               /\ (est.pc = "done" => est.confirm_steps = 1)

\* C21: against a sandbox that fails exactly below a body gas limit of T
\* (0 <= T <= MAX_L2_TX_GAS_LIMIT) the search ends with
\* T <= upper_bound <= T + acceptable_overestimation; and with
\* acceptable_overestimation 1, scale factor 1 and no factory deps a Fee has
\* T <= gas_limit <= T + 1 + overhead.
C21_EstimatorConverges ==
    (est.pc # "idle" /\ SearchEnded /\ est.in.threshold >= 0) =>
        /\ est.in.threshold <= est.upper_bound
        /\ est.upper_bound <= est.in.threshold + est.in.acceptable_overestimation
        /\ (est.result = "Fee" /\ est.in.acceptable_overestimation = 1
            /\ est.in.scale = 2 /\ est.in.pubdata = 0)
           => /\ est.in.threshold <= est.gas_limit
              /\ est.gas_limit <= est.in.threshold + 1
                     + derive_overhead(est.in.overhead, est.tx_body_gas_limit)

\* A Fee after a search of at least two steps that found a threshold inside
\* the range, with an overhead on top.
C21_Witness ==
    /\ est.pc = "done" /\ est.result = "Fee"
    /\ est.in.threshold > 0 /\ est.in.threshold < MAX_L2_TX_GAS_LIMIT
    /\ est.in.acceptable_overestimation = 1 /\ est.in.scale = 2 /\ est.in.pubdata = 0
    /\ est.iterations >= 2
    /\ est.gas_limit > est.in.threshold

\* C22: the binary search terminates for every acceptable_overestimation and
\* every sequence of sandbox outcomes: the sum in the loop condition never
\* wraps or panics, the loop makes fewer iterations than the u32 has bits,
\* and it is eventually left.
C22_SearchTerminates ==
    /\ [](est.pc # "idle" => est.first # "guard" /\ est.iterations < U32Bits)
    /\ <>(est.pc \notin {"prepare", "acquire", "search"})

\* The longest search against an arbitrary sandbox has been left.
C22_Witness ==
    /\ est.pc = "final" /\ est.in.threshold = -1
    /\ est.iterations = U32Bits - 1
    /\ est.in.acceptable_overestimation = 0

\* C23: a Fee is returned only after exactly one confirming step, run after
\* the search, that did not fail and whose gas limit, overhead included, is
\* the gas_limit of the Fee.
C23_FeeConfirmed ==
    est.pc # "idle" =>
        /\ est.confirm_steps <= 1
        /\ est.confirm_steps = 1 => est.pc = "done"
        /\ est.result = "Fee"
           => /\ est.confirm_steps = 1
              /\ ~est.final_failed /\ est.sealable
              /\ est.gas_limit = est.final_gas_limit

\* A Fee after a search of zero iterations, with bytecode pubdata and an
\* overhead that depends on the gas limit.
C23_Witness ==
    /\ est.pc = "done" /\ est.result = "Fee"
    /\ est.iterations = 0 /\ est.confirm_steps = 1
    /\ est.gas_for_bytecodes_pubdata > 0 /\ est.in.overhead.per_gas = 1
    /\ est.gas_limit > est.tx_body_gas_limit + est.gas_for_bytecodes_pubdata

\* The mathematical total tx_body_gas_limit + gas_for_bytecodes_pubdata +
\* overhead of the estimation.
TotalGas ==
    est.tx_body_gas_limit + est.gas_for_bytecodes_pubdata
    + derive_overhead(est.in.overhead,
                      est.tx_body_gas_limit + est.gas_for_bytecodes_pubdata)

\* C24: when tx_body_gas_limit + gas_for_bytecodes_pubdata + overhead exceeds
\* the u32 range the estimation (whose confirming step passed) fails with
\* "exceeds block gas limit"; a Fee carries the mathematical total; and none
\* of the sums try_gas_limit, suggested_gas_limit, the gas limit with
\* overhead of a step, bytecodes pubdata + overhead wraps or panics.
C24_GasLimitOverflow ==
    est.pc # "idle" =>
        /\ est.first \in {"none", "pubdata_mul"}
        /\ (est.pc = "done" /\ est.sealable /\ TotalGas > U32 - 1)
           => est.result = "ExceedsBlockGasLimit"
        /\ est.result = "Fee" => est.gas_limit = TotalGas

\* The early transfer check of the claim: L2, no code, balance < value
TransferMustFail ==
    est.in.kind = "L2" /\ ~est.in.has_code /\ est.in.balance < est.in.value

\* C25: estimate_fee fails with InsufficientFundsForTransfer iff the tx is an
\* L2 tx whose initiator has no code and a balance below tx.value; when it
\* does, no permit was acquired and no sandbox step ran.
C25_EarlyTransferCheck ==
    (est.pc \notin {"idle", "prepare"}) =>
        /\ est.result = "InsufficientFundsForTransfer" <=> TransferMustFail
        /\ est.result = "InsufficientFundsForTransfer"
           => ~est.acquired /\ est.iterations = 0 /\ est.confirm_steps = 0

\* the partition the table of versions gives for a version
PartitionOf(version) ==
    IF version <= 12 THEN "pre_virtual_blocks"
    ELSE IF version = 13 THEN "post_virtual_blocks"
    ELSE IF version <= 17 THEN "post_virtual_blocks_finish_upgrade_fix"
    ELSE IF version = 18 THEN "post_boojum"
    ELSE "post_allowlist_removal"

\* C26: the selected system contracts are a total function of the protocol
\* version: 0..12 pre_virtual_blocks, 13 post_virtual_blocks, 14..17
\* post_virtual_blocks_finish_upgrade_fix, 18 post_boojum, 19..20
\* post_allowlist_removal; exactly one partition of the suite is selected.
C26_ContractsByVersion ==
    contracts.pc = "selected" =>
        LET self == contracts.api_contracts[contracts.suite]
        IN  /\ contracts.selected = self[PartitionOf(contracts.version)]
            /\ Cardinality({p \in Partitions : self[p] = contracts.selected}) = 1

\* Version 13 has selected the post_virtual_blocks contracts for eth_call.
C26_Witness ==
    /\ contracts.pc = "selected" /\ contracts.version = 13
    /\ contracts.suite = "eth_call"
    /\ contracts.selected = <<"playground", "post_virtual_blocks">>

\* C27: after an answer for batch b was processed, the scan stops if b has no
\* commit hash; else if b has no prove hash and b < last_committed the next
\* batch is last_committed + 1; else if b has no executed_at and
\* b < last_proven it is last_proven + 1; else it is b + 1. No batch strictly
\* between b and the next batch is probed in the cycle, and only batches in
\* (last_executed, last_sealed_batch] are probed.
C27_SkipAheadRule ==
    /\ [](\A n \in probed : cycle_start.executed < n /\ n <= locals.last_sealed_batch)
    /\ [][(pc = "scan" /\ probed' # probed /\ observed'.answer.processed) =>
            LET b == locals.batch
                a == observed'.answer
            IN  /\ IF ~a.commit_tx_hash
                   THEN pc' = "collected" /\ collect_result' = "ok"
                   ELSE /\ pc' = "scan"
                        /\ locals'.batch =
                             IF ~a.prove_tx_hash /\ b < locals'.last_committed_l1_batch
                             THEN locals'.last_committed_l1_batch + 1
                             ELSE IF ~a.executed_at /\ b < locals'.last_proven_l1_batch
                             THEN locals'.last_proven_l1_batch + 1
                             ELSE b + 1
                /\ \A n \in probed' : n <= b
                /\ pc' = "scan" => locals'.batch > b]_vars

\* A scan jumped from batch 1 over batch 2 to the batch after the last proven
\* one, because batch 1 was proven and not executed.
C27_Witness ==
    /\ pc = "scan" /\ probed = {1} /\ locals.batch = 3
    /\ locals.last_proven_l1_batch = 2
    /\ observed.answer.processed /\ observed.answer.prove_tx_hash
    /\ ~observed.answer.executed_at

\* every collected change is within the status before it
ChangesInOrder ==
    /\ \A i \in DOMAIN status_changes.commit :
           status_changes.commit[i] <= locals.last_sealed_batch
    /\ \A i \in DOMAIN status_changes.prove :
           status_changes.prove[i] <= locals.last_committed_l1_batch
    /\ \A i \in DOMAIN status_changes.execute :
           status_changes.execute[i] <= locals.last_proven_l1_batch

\* C28: against a consistent main node and a non-decreasing last sealed batch,
\* every collected commit change is <= the last sealed batch, every prove
\* change <= last_committed and every execute change <= last_proven, and no
\* ordering assertion of apply_status_changes fails.
C28_NoChangeFromTheFuture ==
    /\ pc \in {"scan", "collected", "apply"} => ChangesInOrder
    /\ locals.last_sealed_batch <= last_sealed_batch
    /\ observed.apply_failure # "ensure"
    /\ observed.out_of_order = {}

\* Commit, prove and execute of one batch were collected in one cycle and
\* applied.
C28_Witness ==
    /\ pc = "loop" /\ observed.apply_failure = ""
    /\ cycle_start.committed = 0
    /\ last_committed_l1_batch = 2 /\ last_proven_l1_batch = 2
    /\ last_executed_l1_batch = 1
    /\ Len(eth_txs.prove) = 2

\* C29 as stated: once the main node reported a prove hash for batch
\* last_proven + 1 above last_committed, or an execute hash for a batch above
\* last_proven, the apply of that cycle fails and persists nothing.
C29_OutOfOrderHalts ==
    [][(pc = "apply" /\ pc' # pc /\ observed.out_of_order # {}) =>
            /\ pc' = "failed"
            /\ eth_txs' = eth_txs]_vars

\* a change of the collection is above the status before it as apply will
\* know it: the counters of the updater advanced by the collected changes
OutOfOrderChange ==
    LET committed == IF status_changes.commit = <<>> THEN last_committed_l1_batch
                     ELSE status_changes.commit[Len(status_changes.commit)]
        proven == IF status_changes.prove = <<>> THEN last_proven_l1_batch
                  ELSE status_changes.prove[Len(status_changes.prove)]
    IN  \/ \E i \in DOMAIN status_changes.prove : status_changes.prove[i] > committed
        \/ \E i \in DOMAIN status_changes.execute : status_changes.execute[i] > proven

\* C29 amended: when the collected changes hold a prove change above the last
\* committed batch, or an execute change above the last proven batch, as the
\* collected changes leave them, apply fails (by an ensure unless the storage
\* fails first), run returns the error and no row is written; an out-of-order
\* prove report always ends so.
C29_OutOfOrderChangeHalts ==
    [][(pc = "apply" /\ pc' # pc
        /\ (OutOfOrderChange \/ "prove" \in observed.out_of_order)) =>
            /\ pc' = "failed"
            /\ eth_txs' = eth_txs
            /\ observed'.apply_failure \in {"ensure", "storage"}]_vars

\* An apply failed on an ordering assertion and left the rows as they were.
C29_Witness ==
    /\ pc = "failed" /\ observed.apply_failure = "ensure"
    /\ observed.out_of_order = {"execute"}
    /\ eth_txs = cycle_start.eth_txs

\* C30 as stated: the run loop sleeps exactly in the cycles whose collected
\* changes are empty and applies the changes otherwise; after an apply the
\* next cycle starts without sleeping.
C30_SleepIffEmpty ==
    [][/\ (pc = "collected" /\ pc' # pc) =>
              IF is_empty(status_changes) THEN pc' = "sleep" ELSE pc' = "apply"
       /\ (pc = "apply" /\ pc' # pc /\ pc' # "failed") => pc' = "loop"
       /\ pc' = "sleep" => pc = "collected"
       /\ pc' = "apply" => pc = "collected"]_vars

\* C30 amended: the same for the cycles whose collection did not end with an
\* internal error; those make run return the error without sleeping and
\* without applying.
C30_SleepIffEmptyUnlessInternal ==
    [][/\ (pc = "collected" /\ pc' # pc) =>
              IF collect_result = "internal" THEN pc' = "failed"
              ELSE IF is_empty(status_changes) THEN pc' = "sleep"
              ELSE pc' = "apply"
       /\ (pc = "apply" /\ pc' # pc /\ pc' # "failed") => pc' = "loop"
       /\ (pc = "sleep" /\ pc' # pc) => pc' = "loop"
       /\ pc' = "sleep" /\ pc' # pc => pc = "collected" /\ is_empty(status_changes)
       /\ pc' = "apply" /\ pc' # pc => pc = "collected" /\ ~is_empty(status_changes)]_vars

\* A cycle that ended with an RPC error and collected nothing is sleeping,
\* after an earlier cycle whose changes were applied.
C30_Witness ==
    /\ pc = "sleep" /\ collect_result = "web3" /\ is_empty(status_changes)
    /\ probed # {} /\ Len(eth_txs.commit) > 0
    /\ last_committed_l1_batch > 0

\* C31: the batch the scan probes strictly increases on every iteration that
\* goes on to another one, skip-ahead jumps included, and every batch probed
\* in a cycle lies in (last_executed, last_sealed_batch] as they were read at
\* the start of the cycle: a cycle makes at most
\* last_sealed_batch - last_executed probes.
C31_ScanTerminates ==
    /\ [](pc \in {"scan", "collected"} /\ probed # {} =>
            /\ probed \subseteq (cycle_start.executed + 1)..locals.last_sealed_batch
            /\ Cardinality(probed) <= locals.last_sealed_batch - cycle_start.executed
            /\ pc = "scan" => \A n \in probed : n < locals.batch)
    /\ [][pc = "scan" /\ pc' = "scan" /\ locals' # locals =>
            /\ locals'.batch > locals.batch
            /\ probed' = probed \cup {locals.batch}
            /\ locals.batch \notin probed]_vars

\* A scan left the loop by its condition after two probes, the first of
\* which was followed by a jump over a batch.
C31_Witness ==
    /\ pc = "scan" /\ locals.batch > locals.last_sealed_batch
    /\ Cardinality(probed) = 2
    /\ locals.last_sealed_batch - cycle_start.executed = 3

\* what one cycle can bring a counter to: the main node's status capped by
\* the newest sealed batch the cycle read, or the counter if it is ahead
Reachable(old, status) == Max(old, Min(status, locals.last_sealed_batch))

\* batch n has a transition the cycle could mirror
TransitionAvailable(n) ==
    /\ n <= locals.last_sealed_batch
    /\ \/ cycle_start.committed < n /\ n <= upstream.committed
       \/ cycle_start.proven < n /\ n <= upstream.proven
       \/ cycle_start.executed < n /\ n <= upstream.executed

\* C32: against a consistent main node with statuses C >= P >= E that
\* answers every request and knows every sealed batch, an apply that
\* succeeds after one scan leaves last_committed = max(old, min(C, sealed)),
\* last_proven = max(old, min(P, sealed)) and
\* last_executed = max(old, min(E, sealed)); a cycle that collected nothing
\* had its counters there already; and no batch the scan jumped over had a
\* transition to mirror.
C32_CycleComplete ==
    /\ [][pc = "apply" /\ pc' = "loop" =>
            /\ last_committed_l1_batch'
                 = Reachable(last_committed_l1_batch, upstream.committed)
            /\ last_proven_l1_batch' = Reachable(last_proven_l1_batch, upstream.proven)
            /\ last_executed_l1_batch'
                 = Reachable(last_executed_l1_batch, upstream.executed)]_vars
    /\ [](pc = "sleep" =>
            /\ last_committed_l1_batch
                 = Reachable(last_committed_l1_batch, upstream.committed)
            /\ last_proven_l1_batch = Reachable(last_proven_l1_batch, upstream.proven)
            /\ last_executed_l1_batch
                 = Reachable(last_executed_l1_batch, upstream.executed))
    /\ [](pc \in {"scan", "collected"} /\ locals # NoLocals =>
            \A n \in (cycle_start.executed + 1)..(locals.batch - 1) :
                n \notin probed => ~TransitionAvailable(n))

\* One cycle took the counters from (3, 0, 0) to (3, 1, 1): the scan jumped
\* from batch 2 over batch 3, whose commit was mirrored before.
C32_Witness ==
    /\ pc = "loop" /\ cycle_start.committed = 3 /\ cycle_start.proven = 0
    /\ cycle_start.executed = 0
    /\ last_committed_l1_batch = 3 /\ last_proven_l1_batch = 1
    /\ last_executed_l1_batch = 1
    /\ upstream = [committed |-> 3, proven |-> 1, executed |-> 1]
    /\ probed = {1, 2}

\* the counters are the main node's statuses capped by the newest sealed batch
CaughtUp ==
    /\ last_committed_l1_batch = Min(upstream.committed, last_sealed_batch)
    /\ last_proven_l1_batch = Min(upstream.proven, last_sealed_batch)
    /\ last_executed_l1_batch = Min(upstream.executed, last_sealed_batch)

\* the local statuses are not ahead of the main node's
LocalNotAhead ==
    /\ last_committed_l1_batch <= upstream.committed
    /\ last_proven_l1_batch <= upstream.proven
    /\ last_executed_l1_batch <= upstream.executed

\* from some point on no request to the main node fails and the main node
\* knows every batch asked for
RpcFailuresEnd == <>[][~ProbeRpcError /\ ~ProbeNotSealedUpstream]_vars

\* caught up for good, and no cycle collects a change
Settled == <>[](CaughtUp /\ is_empty(status_changes) /\ pc # "apply")

Persisted ==
    [committed |-> SeqMax(eth_txs.commit), proven |-> SeqMax(eth_txs.prove),
     executed |-> SeqMax(eth_txs.execute)]

InMemory ==
    [committed |-> last_committed_l1_batch, proven |-> last_proven_l1_batch,
     executed |-> last_executed_l1_batch]

\* C34: as long as run has not returned an error, the counters in memory are
\* the persisted ones, in particular at the head of every cycle; the steps of
\* get_status_changes and of run around it change neither the counters nor
\* the storage; and an apply after which the loop continues has stored a
\* record for every batch it advanced a counter over.
C34_CountersArePersisted ==
    /\ [](pc # "failed" => InMemory = Persisted)
    /\ [][(pc \in {"loop", "scan", "collected", "sleep"}) =>
            (UNCHANGED <<last_committed_l1_batch, last_proven_l1_batch,
                         last_executed_l1_batch, eth_txs>>)]_vars
    /\ [][pc = "apply" /\ pc' = "loop" =>
            /\ \A n \in (last_committed_l1_batch + 1)..last_committed_l1_batch' :
                   n \in Range(eth_txs'.commit)
            /\ \A n \in (last_proven_l1_batch + 1)..last_proven_l1_batch' :
                   n \in Range(eth_txs'.prove)
            /\ \A n \in (last_executed_l1_batch + 1)..last_executed_l1_batch' :
                   n \in Range(eth_txs'.execute)]_vars

\* run is at the head of the loop after an apply that advanced the three
\* counters from 0 and stored the records.
C34_Witness ==
    /\ pc = "loop" /\ cycle_start.committed = 0 /\ cycle_start.eth_txs.commit = <<>>
    /\ last_committed_l1_batch = 3 /\ last_proven_l1_batch = 2
    /\ last_executed_l1_batch = 1
    /\ eth_txs = [commit |-> <<1, 2, 3>>, prove |-> <<1, 2>>, execute |-> <<1>>]
    /\ observed.apply_failure = "" /\ last_sealed_batch = 3

\* C35: while a submit_tx call is between its save_tx and the completion of
\* its submission to the main node, the hash of its tx has an entry in the
\* proxy cache, whatever other submit_tx calls for the same hash do.
C35_CachedWhileSubmitting ==
    \A r \in DOMAIN requests :
        (requests[r].op = "submit_tx" /\ requests[r].pc = "proxy_submit")
        => proxy_cache[requests[r].hash] # 0

\* C36: with a proxy configured (with or without a master pool) no submit_tx
\* writes to the local transactions table: the mempool stays as it was, no
\* call reaches insert_transaction_l2, and a call whose tx passed every check
\* returns Proxied or the error of the main node.
C36_ProxyNeverInserts ==
    setup.proxy =>
        /\ mempool = {}
        /\ \A r \in DOMAIN requests :
            /\ requests[r].pc # "insert"
            /\ ~Has(requests[r].trace, "insert")
            /\ (requests[r].pc = "done" /\ Has(requests[r].trace, "seal_ok"))
               => requests[r].result.kind \in {"Proxied", "ProxyError"}

\* A TxSender built with a proxy and a master pool returned Proxied.
C36_Witness ==
    /\ setup.proxy /\ setup.master
    /\ \E r \in DOMAIN requests :
        /\ requests[r].op = "submit_tx" /\ requests[r].pc = "done"
        /\ requests[r].result.kind = "Proxied"

\* C37: once the confirming step has run (and no u32 operation panicked),
\* a failed step makes the call return ExecutionReverted whatever the seal
\* predicate would say; Unexecutable is returned exactly when the step did
\* not fail and the seal predicate rejected; a Fee, or the overflow error of
\* the gas limit, only when the step did not fail and the predicate accepted.
C37_FinalStepOrder ==
    (est.pc = "done" /\ est.confirm_steps = 1 /\ est.result # "panic") =>
        /\ est.final_failed <=> est.result = "ExecutionReverted"
        /\ (~est.final_failed /\ ~est.sealable) <=> est.result = "Unexecutable"
        /\ (~est.final_failed /\ est.sealable)
           <=> est.result \in {"Fee", "ExceedsBlockGasLimit"}

\* The confirming step passed and the seal predicate rejected the tx.
C37_Witness ==
    /\ est.pc = "done" /\ est.confirm_steps = 1 /\ est.result = "Unexecutable"
    /\ ~est.final_failed /\ est.iterations >= 1

\* C38: for the same oracle price, scale factor, fair_l2_gas_price and
\* protocol version, gas_price returns the base fee the fee estimation
\* works with and returns as max_fee_per_gas (for a tx whose
\* gas_per_pubdata_limit is the highest a block asks for, so that the
\* estimation has no reason to lower the L1 gas price).
C38_SameBaseFee ==
    (/\ fees.pc = "called" /\ fees.gas_price # NoFee /\ fees.estimate # NoFee
     /\ fees.in.gas_per_pubdata_limit = MAX_GAS_PER_PUBDATA_BYTE)
    => fees.gas_price.base_fee = fees.estimate.base_fee
====
